---- MODULE Spec2Model ----
(***************************************************************************)
(* Circuit construction of zkspv-circuits: the track-block circuit         *)
(* (src/track_block/mod.rs) and the Ethereum transaction circuit           *)
(* (src/transaction/ethereum/mod.rs).                                      *)
(*                                                                         *)
(* A circuit run is a host program that assigns witness cells and emits    *)
(* constraints.  The model keeps the emitted constraints as records        *)
(* [name, lhs, rhs]; a run is satisfiable when every emitted constraint    *)
(* has lhs = rhs.  A host panic (index out of bounds, unwrap on a failed   *)
(* conversion) ends the run in pc = "panic".                               *)
(*                                                                         *)
(* Value representation.  A field element is an integer modulo             *)
(* FieldModulus (the bn256 scalar field, replaced by a prime small enough  *)
(* to compute with).  A 128-bit limb of a hash is never used               *)
(* arithmetically, so it is kept as its 16 big-endian base-256 digits.     *)
(***************************************************************************)
EXTENDS Integers, Sequences, FiniteSets, TLC

(***************************************************************************)
(* Sizes                                                                   *)
(***************************************************************************)
FieldModulus == 2^19 - 1
DivModRangeBits == 16
HashBytes == 32
LimbBytes == 16
AddressBytes == 20
FromOffset == 12

EIP_1559_TX_TYPE == 2
EIP_2930_TX_TYPE == 1
EIP_2718_TX_TYPE == 248
EIP_TX_TYPE_CRITICAL_VALUE == 128
FUNCTION_SELECTOR_BYTES_LEN == 4
ERC20_TO_ADDRESS_BYTES_LEN == 32
CALLDATA_BYTES_LEN == 68
FUNCTION_SELECTOR_ERC20_TRANSFER == <<169, 5, 156, 187>>
TX_MAX_LEN == 280
BlockHeaderRlpMaxBytes == 320
BloomBytes == 8
BaseFeeBytes == 6
TestMaxDepth == 3

\* bounds of the explored inputs
MaxHeaders == 3
MaxValue == 5
MaxDepth == 2

(***************************************************************************)
(* Bytes                                                                   *)
(***************************************************************************)
Zeros(n) == [i \in 1..n |-> 0]

Fill(n, b) == [i \in 1..n |-> b]

\* Vec::resize(n, v): truncates when longer, pads with v when shorter
Resize(s, n, v) == [i \in 1..n |-> IF i <= Len(s) THEN s[i] ELSE v]

\* slice s[a..b] with 0-based, end-exclusive Rust indices
Slice(s, a, b) == SubSeq(s, a + 1, b)

RECURSIVE EvalNat(_)
EvalNat(bytes) ==
    IF bytes = <<>> THEN 0
    ELSE EvalNat(SubSeq(bytes, 1, Len(bytes) - 1)) * 256 + bytes[Len(bytes)]

RECURSIVE MinBytes(_)
MinBytes(n) == IF n = 0 THEN <<>> ELSE MinBytes(n \div 256) \o <<n % 256>>

LeftPad(bytes, n) == Zeros(n - Len(bytes)) \o bytes

RECURSIVE Concat(_)
Concat(ss) == IF ss = <<>> THEN <<>> ELSE Head(ss) \o Concat(Tail(ss))

(***************************************************************************)
(* Field arithmetic (halo2-base GateInstructions over F)                   *)
(***************************************************************************)
FAdd(a, b) == (a + b) % FieldModulus

FSub(a, b) == (a - b + FieldModulus) % FieldModulus

FMulConst(c, a) == (c * a) % FieldModulus

\* div_unsafe(a, 2): the field element c with 2 * c = a
FDiv2(a) == IF a % 2 = 0 THEN a \div 2 ELSE (a + FieldModulus) \div 2

IsEqual(a, b) == IF a = b THEN 1 ELSE 0

IsLessThan(a, b) == IF a < b THEN 1 ELSE 0

\* big-endian evaluation of bytes as a field element
RECURSIVE EvalField(_)
EvalField(bytes) ==
    IF bytes = <<>> THEN 0
    ELSE (EvalField(SubSeq(bytes, 1, Len(bytes) - 1)) * 256 + bytes[Len(bytes)]) % FieldModulus

\* range.div_mod(a, b, a_num_bits): quotient and remainder of the integer a,
\* the quotient range-checked to a_num_bits bits
DivModBug(a, b) == [quotient |-> a \div b, remainder |-> a % b, ok |-> TRUE]

DivMod(a, b) == [quotient |-> a \div b, remainder |-> a % b,
                 ok |-> (a \div b) < 2^DivModRangeBits]

(***************************************************************************)
(* Keccak (a deterministic stand-in with a 32-byte digest)                 *)
(***************************************************************************)
\* position-weighted sum of bytes[lo..hi], by halving
RECURSIVE Absorb(_, _, _)
Absorb(bytes, lo, hi) ==
    IF lo > hi THEN 0
    ELSE IF lo = hi THEN ((bytes[lo] + 1) * (((lo * lo) % 1009) + lo + 1)) % 65521
    ELSE LET mid == (lo + hi) \div 2
         IN  (Absorb(bytes, lo, mid) + Absorb(bytes, mid + 1, hi)) % 65521

Keccak(bytes) ==
    LET a == (Absorb(bytes, 1, Len(bytes)) + 7 * Len(bytes) + 11) % 65521
    IN  [i \in 1..HashBytes |-> ((a + 13 * i) * (i + 2) + (a \div 256)) % 256]

\* keccak_var_len(bytes, len): digest of the first len bytes
KeccakVarLen(bytes, len) ==
    Keccak(SubSeq(bytes, 1, IF len <= Len(bytes) THEN len ELSE Len(bytes)))

\* bytes_be_to_u128: 32 bytes to two 128-bit limbs, high limb first
BytesBeToU128(bytes) ==
    << SubSeq(bytes, 1, LimbBytes), SubSeq(bytes, LimbBytes + 1, 2 * LimbBytes) >>

(***************************************************************************)
(* RLP encoding (rlp::RlpStream) and decomposition (RlpChip)               *)
(***************************************************************************)
RlpString(b) ==
    IF Len(b) = 1 /\ b[1] < 128 THEN b
    ELSE IF Len(b) <= 55 THEN <<128 + Len(b)>> \o b
    ELSE LET l == MinBytes(Len(b)) IN <<183 + Len(l)>> \o l \o b

RlpUint(n) == RlpString(MinBytes(n))

RlpList(payload) ==
    IF Len(payload) <= 55 THEN <<192 + Len(payload)>> \o payload
    ELSE LET l == MinBytes(Len(payload)) IN <<247 + Len(l)>> \o l \o payload

\* prefix class of the item starting at 1-based offset off
RlpItemAt(bytes, off) ==
    IF off > Len(bytes) THEN [hdr |-> 0, len |-> 0, list |-> FALSE, ok |-> FALSE]
    ELSE LET p == bytes[off] IN
         IF p < 128 THEN [hdr |-> 0, len |-> 1, list |-> FALSE, ok |-> TRUE]
         ELSE IF p < 184 THEN [hdr |-> 1, len |-> p - 128, list |-> FALSE, ok |-> TRUE]
         ELSE IF p < 192 THEN
              [hdr |-> 1 + (p - 183),
               len |-> IF off + (p - 183) <= Len(bytes)
                       THEN EvalNat(SubSeq(bytes, off + 1, off + (p - 183))) ELSE 0,
               list |-> FALSE, ok |-> off + (p - 183) <= Len(bytes)]
         ELSE IF p < 248 THEN [hdr |-> 1, len |-> p - 192, list |-> TRUE, ok |-> TRUE]
         ELSE [hdr |-> 1 + (p - 247),
               len |-> IF off + (p - 247) <= Len(bytes)
                       THEN EvalNat(SubSeq(bytes, off + 1, off + (p - 247))) ELSE 0,
               list |-> TRUE, ok |-> off + (p - 247) <= Len(bytes)]

\* rlp::Rlp: payloads of the items of the list whose payload is bytes[off..end]
RECURSIVE RlpItemsFrom(_, _, _)
RlpItemsFrom(bytes, off, end) ==
    IF off > end THEN <<>>
    ELSE LET it == RlpItemAt(bytes, off)
         IN  <<SubSeq(bytes, off + it.hdr, off + it.hdr + it.len - 1)>>
             \o RlpItemsFrom(bytes, off + it.hdr + it.len, end)

\* Rlp::new(bytes): item_count() is Len of this, at(k).data() its element k + 1
RlpItems(bytes) ==
    RlpItemsFrom(bytes, RlpItemAt(bytes, 1).hdr + 1, Len(bytes))

EmptyField(max) == [field_len |-> 0, field_cells |-> Zeros(max), ok |-> TRUE]

RECURSIVE RlpFields(_, _, _, _, _)
RlpFields(bytes, off, end, k, maxes) ==
    IF k > Len(maxes) THEN <<>>
    ELSE IF off > end THEN
        <<EmptyField(maxes[k])>> \o RlpFields(bytes, off, end, k + 1, maxes)
    ELSE LET it == RlpItemAt(bytes, off)
             \* a nested list is carried whole, prefix included
             start == IF it.list THEN off ELSE off + it.hdr
             flen  == IF it.list THEN it.hdr + it.len ELSE it.len
             fits  == it.ok /\ flen <= maxes[k] /\ off + it.hdr + it.len - 1 <= end
         IN  IF ~fits
             THEN <<[field_len |-> 0, field_cells |-> Zeros(maxes[k]), ok |-> FALSE]>>
                  \o RlpFields(bytes, end + 1, end, k + 1, maxes)
             ELSE <<[field_len |-> flen,
                     field_cells |-> Resize(SubSeq(bytes, start, start + flen - 1), maxes[k], 0),
                     ok |-> TRUE]>>
                  \o RlpFields(bytes, off + it.hdr + it.len, end, k + 1, maxes)

RECURSIVE RlpConsumed(_, _, _, _)
RlpConsumed(bytes, off, end, k) ==
    IF off > end \/ k = 0 THEN off
    ELSE LET it == RlpItemAt(bytes, off)
         IN  IF ~it.ok THEN off ELSE RlpConsumed(bytes, off + it.hdr + it.len, end, k - 1)

\* decompose_rlp_array_phase0(bytes, max_field_lens, is_variable_len = true)
DecomposeRlpArray(bytes, maxes) ==
    LET top == RlpItemAt(bytes, 1)
        end == top.hdr + top.len
        lim == IF end <= Len(bytes) THEN end ELSE Len(bytes)
        fs  == RlpFields(bytes, top.hdr + 1, lim, 1, maxes)
    IN  [rlp_len |-> end,
         field_witness |-> fs,
         ok |-> /\ top.ok /\ top.list /\ end <= Len(bytes)
                /\ \A k \in 1..Len(fs) : fs[k].ok
                /\ RlpConsumed(bytes, top.hdr + 1, lim, Len(maxes)) = end + 1]

\* rlp_field_witnesses_to_uint: the first field_len cells, big-endian
FieldToUint(w) == EvalField(SubSeq(w.field_cells, 1, w.field_len))

(***************************************************************************)
(* Block headers                                                           *)
(***************************************************************************)
None == [none |-> TRUE]

\* maximum byte length of each header field, in header order; the last two
\* are the optional base fee and withdrawals root
HeaderMaxFieldLensBug ==
    <<HashBytes, HashBytes, AddressBytes, HashBytes, HashBytes, HashBytes, BloomBytes,
      7, 4, 4, 4, 4, HashBytes, HashBytes, 8>>

HeaderMaxFieldLens ==
    <<HashBytes, HashBytes, AddressBytes, HashBytes, HashBytes, HashBytes, BloomBytes,
      7, 4, 4, 4, 4, HashBytes, HashBytes, 8, BaseFeeBytes, HashBytes>>

\* get_block_rlp: the RLP list of the header fields in the fixed order; an
\* Option is the empty sequence or a sequence of one value
GetBlockRlpBug(block) ==
    RlpList(Concat(<<RlpString(block.parent_hash),
                     RlpString(block.uncles_hash),
                     RlpString(block.author),
                     RlpString(block.state_root),
                     RlpString(block.transactions_root),
                     RlpString(block.receipts_root),
                     RlpString(block.logs_bloom),
                     RlpUint(block.difficulty),
                     RlpUint(block.number),
                     RlpUint(block.gas_limit),
                     RlpUint(block.gas_used),
                     RlpUint(block.timestamp),
                     RlpString(block.extra_data),
                     RlpString(block.mix_hash),
                     RlpString(block.nonce),
                     IF block.withdrawals_root = <<>> THEN <<>>
                     ELSE RlpString(block.withdrawals_root[1]),
                     IF block.base_fee_per_gas = <<>> THEN <<>>
                     ELSE RlpUint(block.base_fee_per_gas[1])>>))

GetBlockRlp(block) ==
    RlpList(Concat(<<RlpString(block.parent_hash),
                     RlpString(block.uncles_hash),
                     RlpString(block.author),
                     RlpString(block.state_root),
                     RlpString(block.transactions_root),
                     RlpString(block.receipts_root),
                     RlpString(block.logs_bloom),
                     RlpUint(block.difficulty),
                     RlpUint(block.number),
                     RlpUint(block.gas_limit),
                     RlpUint(block.gas_used),
                     RlpUint(block.timestamp),
                     RlpString(block.extra_data),
                     RlpString(block.mix_hash),
                     RlpString(block.nonce),
                     IF block.base_fee_per_gas = <<>> THEN <<>>
                     ELSE RlpUint(block.base_fee_per_gas[1]),
                     IF block.withdrawals_root = <<>> THEN <<>>
                     ELSE RlpString(block.withdrawals_root[1])>>))

\* decompose_block_header_phase0: the field witnesses and the queued
\* variable-length hash of the first rlp_len bytes
DecomposeBlockHeaderPhase0(block_header) ==
    LET Witness(w) ==
            [rlp_witness |-> w,
             block_hash |-> KeccakVarLen(block_header, w.rlp_len),
             hash_query |-> [input |-> block_header, len |-> w.rlp_len],
             ok |-> w.ok]
    IN  Witness(DecomposeRlpArray(block_header, HeaderMaxFieldLens))

get_parent_hash(w) == w.rlp_witness.field_witness[1]

get_transactions_root(w) == w.rlp_witness.field_witness[5]

get_timestamp(w) == w.rlp_witness.field_witness[12]

get_number(w) == w.rlp_witness.field_witness[9]

\* decompose_block_header_phase1: the second-phase trace of one witness
DecomposeBlockHeaderPhase1(w) ==
    [block_hash |-> w.block_hash,
     field_lens |-> [k \in 1..Len(w.rlp_witness.field_witness) |->
                        w.rlp_witness.field_witness[k].field_len]]

(***************************************************************************)
(* State                                                                   *)
(***************************************************************************)
VARIABLES
    circuit,            \* the program that runs
    pc,                 \* position of the host program
    tb_input,           \* EthTrackBlockInput: one record per header
    tb_i,               \* loop index of phase 0
    parent_hash,        \* running parent hash (limbs), empty before header 0
    block_witness,      \* witnesses pushed by phase 0
    block_trace,        \* traces pushed by phase 1
    constraints,        \* emitted constraints, in emission order
    var_len_queries,    \* keccak.var_len_queries
    fixed_len_queries,  \* keccak.fixed_len_queries
    digest,             \* EIP1186ResponseDigest returned by phase 0
    assigned_instances, \* public instance cells
    tx_input,           \* EthBlockTransactionInput
    tx_fetched,         \* the transaction the provider decoded (providers.rs:180)
    tx_witness,         \* EthBlockTransactionTraceWitness returned by phase 0
    tx_trace,           \* EthBlockTransactionTrace returned by phase 1
    tx_shape,           \* host-level choices that fix which constraints are generated
    digest_reads,       \* reads of the output of a hash query, with the phase of the read
    hc_input,           \* header list, num_blocks and max_depth of a header-chain circuit
    gb_args,            \* arguments of a get_blocks_input call
    gb_files,           \* data/chain: the cached ranges
    gb_result           \* value returned by get_blocks_input

tb_vars == <<tb_input, tb_i, parent_hash, block_witness, block_trace>>

tx_vars == <<tx_input, tx_fetched, tx_witness, tx_trace, tx_shape>>

hc_vars == <<hc_input>>

gb_vars == <<gb_args, gb_files, gb_result>>

vars == <<circuit, pc, tb_input, tb_i, parent_hash, block_witness, block_trace, constraints,
          var_len_queries, fixed_len_queries, digest, assigned_instances,
          tx_input, tx_fetched, tx_witness, tx_trace, tx_shape,
          digest_reads, hc_input, gb_args, gb_files, gb_result>>

FIRST_PHASE == 0

\* every emitted constraint holds
Satisfiable == \A k \in 1..Len(constraints) : constraints[k].lhs = constraints[k].rhs

(***************************************************************************)
(* Track-block inputs                                                      *)
(***************************************************************************)
BlockOf(parent, number) ==
    [parent_hash |-> parent,
     uncles_hash |-> Fill(HashBytes, 1),
     author |-> Fill(AddressBytes, 2),
     state_root |-> Fill(HashBytes, 3),
     transactions_root |-> Fill(HashBytes, 4),
     receipts_root |-> Fill(HashBytes, 5),
     logs_bloom |-> Zeros(BloomBytes),
     difficulty |-> 0,
     number |-> number,
     gas_limit |-> 30000,
     gas_used |-> 21000,
     timestamp |-> 1000 + number,
     extra_data |-> <<>>,
     mix_hash |-> Fill(HashBytes, 6),
     nonce |-> Zeros(8),
     base_fee_per_gas |-> <<>>,
     withdrawals_root |-> <<>>]

\* provider output for one block: the block, its hash and its encoding
Fetched(block) ==
    [block |-> block, block_hash |-> Keccak(GetBlockRlp(block)), block_header |-> GetBlockRlp(block)]

Block1 == Fetched(BlockOf(Fill(HashBytes, 9), 1))
Block2 == Fetched(BlockOf(Block1.block_hash, 2))
Block3 == Fetched(BlockOf(Block2.block_hash, 3))
Block4 == Fetched(BlockOf(Block3.block_hash, 4))
Block5 == Fetched(BlockOf(Block4.block_hash, 5))
Block6 == Fetched(BlockOf(Block5.block_hash, 6))
Block7 == Fetched(BlockOf(Block6.block_hash, 7))
Block8 == Fetched(BlockOf(Block7.block_hash, 8))
\* a block numbered 3 whose parent is block 1, not block 2
Block3Skip == Fetched(BlockOf(Block1.block_hash, 3))

\* a block whose encoding is longer than block_header_rlp_max_bytes
BlockLong ==
    Fetched([BlockOf(Block1.block_hash, 2)
                EXCEPT !.extra_data = Fill(BlockHeaderRlpMaxBytes - 240, 1)])

HeaderPool == {Block1, Block2, Block3, Block3Skip, BlockLong}

RECURSIVE SeqsUpTo(_, _)
SeqsUpTo(S, n) ==
    IF n = 0 THEN {<<>>}
    ELSE LET shorter == SeqsUpTo(S, n - 1)
         IN  shorter \cup {Append(s, x) : s \in {t \in shorter : Len(t) = n - 1}, x \in S}

(***************************************************************************)
(* Track-block circuit (src/track_block/mod.rs)                            *)
(***************************************************************************)
InitTrack ==
    /\ circuit = "track_block"
    /\ pc = "phase0"
    /\ digest_reads = <<>>
    /\ hc_input = None
    /\ gb_args = None
    /\ gb_files = None
    /\ gb_result = None
    /\ tb_input \in SeqsUpTo(HeaderPool, MaxHeaders)
    /\ tb_i = 0
    /\ parent_hash = <<>>
    /\ block_witness = <<>>
    /\ block_trace = <<>>
    /\ constraints = <<>>
    /\ var_len_queries = <<>>
    /\ fixed_len_queries = <<>>
    /\ digest = None
    /\ assigned_instances = <<>>
    /\ tx_input = None
    /\ tx_fetched = None
    /\ tx_witness = None
    /\ tx_trace = None
    /\ tx_shape = None

Min(a, b) == IF a < b THEN a ELSE b

\* the parent-hash check of loop iteration i: zip of the decoded parent-hash
\* limbs with the running parent hash, skipped for header 0
LinkConstraintsBug(i, parent_hash_element, running) ==
    IF i # 0
    THEN [k \in 1..Min(Len(parent_hash_element), 1) |->
            [name |-> "link", idx |-> i, limb |-> k,
             lhs |-> parent_hash_element[k], rhs |-> running[k]]]
    ELSE <<>>

LinkConstraints(i, parent_hash_element, running) ==
    IF i # 0
    THEN [k \in 1..Min(Len(parent_hash_element), Len(running)) |->
            [name |-> "link", idx |-> i, limb |-> k,
             lhs |-> parent_hash_element[k], rhs |-> running[k]]]
    ELSE <<>>

\* one iteration of the loop of parse_track_block_proof_from_block_phase0
TrackPhase0Step ==
    /\ circuit = "track_block"
    /\ pc = "phase0"
    /\ tb_i < Len(tb_input)
    /\ LET block_header == Resize(tb_input[tb_i + 1].block_header, BlockHeaderRlpMaxBytes, 0)
           block_witness_temp == DecomposeBlockHeaderPhase0(block_header)
           parent_hash_element ==
               BytesBeToU128(get_parent_hash(block_witness_temp).field_cells)
           child_hash == BytesBeToU128(block_witness_temp.block_hash)
       IN  /\ constraints' = constraints
                \o <<[name |-> "header_rlp", idx |-> tb_i, limb |-> 0,
                      lhs |-> block_witness_temp.ok, rhs |-> TRUE]>>
                \o LinkConstraints(tb_i, parent_hash_element, parent_hash)
           /\ var_len_queries' = Append(var_len_queries, block_witness_temp.hash_query)
           \* bytes_be_to_u128 of block_hash (line 178) takes the output cells
           \* of the query just queued
           /\ digest_reads' = Append(digest_reads,
                                     [query |-> "var_len", idx |-> Len(var_len_queries) + 1,
                                      phase |-> FIRST_PHASE])
           /\ parent_hash' = child_hash
           /\ block_witness' = Append(block_witness, block_witness_temp)
    /\ tb_i' = tb_i + 1
    /\ UNCHANGED <<circuit, hc_vars, gb_vars>>
    /\ UNCHANGED tx_vars
    /\ UNCHANGED <<pc, tb_input, block_trace, fixed_len_queries, digest, assigned_instances>>

\* a conversion that fills the missing limbs with zeros
LastBlockHashBug(running) ==
    <<[k \in 1..2 |-> IF k <= Len(running) THEN running[k] ELSE 0]>>

\* parent_hash.try_into(): the array of two limbs, or an error for a vector
\* of another length (line 193)
LastBlockHash(running) ==
    IF Len(running) = 2 THEN <<running>> ELSE <<>>

\* end of phase 0: parent_hash.try_into().unwrap() needs exactly two limbs
TrackPhase0Return ==
    /\ circuit = "track_block"
    /\ pc = "phase0"
    /\ tb_i = Len(tb_input)
    /\ IF LastBlockHash(parent_hash) # <<>>
       THEN /\ digest' = [last_block_hash |-> LastBlockHash(parent_hash)[1]]
            /\ pc' = "create"
       ELSE /\ digest' = digest
            /\ pc' = "panic"
    /\ UNCHANGED <<circuit, digest_reads, hc_vars, gb_vars>>
    /\ UNCHANGED tx_vars
    /\ UNCHANGED <<tb_input, tb_i, parent_hash, block_witness, block_trace, constraints,
                   var_len_queries, fixed_len_queries, assigned_instances>>

\* EthTrackBlockCircuit::create after phase 0: the instance is the digest
TrackAssignedInstancesBug(d) == <<d.last_block_hash[2], d.last_block_hash[1]>>

TrackAssignedInstances(d) == d.last_block_hash

TrackCreate ==
    /\ circuit = "track_block"
    /\ pc = "create"
    /\ assigned_instances' = TrackAssignedInstances(digest)
    /\ pc' = "phase1"
    /\ UNCHANGED <<circuit, digest_reads, hc_vars, gb_vars>>
    /\ UNCHANGED tx_vars
    /\ UNCHANGED <<tb_input, tb_i, parent_hash, block_witness, block_trace, constraints,
                   var_len_queries, fixed_len_queries, digest>>

\* the witness the loop of phase 1 takes after `done` iterations (line 212)
NextWitnessBug(witnesses, done) == witnesses[Len(witnesses) - done]

NextWitness(witnesses, done) == witnesses[done + 1]

\* one iteration of the loop of parse_track_block_proof_from_block_phase1
TrackPhase1Step ==
    /\ circuit = "track_block"
    /\ pc = "phase1"
    /\ Len(block_trace) < Len(block_witness)
    /\ block_trace' = Append(block_trace,
                             DecomposeBlockHeaderPhase1(
                                 NextWitness(block_witness, Len(block_trace))))
    /\ UNCHANGED <<circuit, digest_reads, hc_vars, gb_vars>>
    /\ UNCHANGED tx_vars
    /\ UNCHANGED <<pc, tb_input, tb_i, parent_hash, block_witness, constraints,
                   var_len_queries, fixed_len_queries, digest, assigned_instances>>

TrackPhase1Return ==
    /\ circuit = "track_block"
    /\ pc = "phase1"
    /\ Len(block_trace) = Len(block_witness)
    /\ pc' = "done"
    /\ UNCHANGED <<circuit, digest_reads, hc_vars, gb_vars>>
    /\ UNCHANGED tx_vars
    /\ UNCHANGED <<tb_input, tb_i, parent_hash, block_witness, block_trace, constraints,
                   var_len_queries, fixed_len_queries, digest, assigned_instances>>

NextTrack ==
    \/ TrackPhase0Step
    \/ TrackPhase0Return
    \/ TrackCreate
    \/ TrackPhase1Step
    \/ TrackPhase1Return

SpecTrack == InitTrack /\ [][NextTrack]_vars

(***************************************************************************)
(* ECDSA (EcdsaChip) and transaction signing (recover_tx_info)             *)
(***************************************************************************)
PubKey(id) == Fill(64, 40 + id)

\* the signature of message hash mh under public key pk
Sign(pk, mh) == [r |-> Keccak(pk \o mh), s |-> Keccak(mh \o pk)]

\* ecdsa_pubkey_verify: 1 when the signature is valid for (message hash, key)
EcdsaPubkeyVerify(in) ==
    IF in.signature = Sign(in.public_key, in.message_hash) THEN 1 ELSE 0

(***************************************************************************)
(* Transactions                                                            *)
(***************************************************************************)
EmptyAccessList == <<192>>

\* the fee items of a typed transaction: maxPriorityFeePerGas and
\* maxFeePerGas for EIP-1559, gasPrice alone for EIP-2930
FeeFields(t) ==
    IF t.type = EIP_1559_TX_TYPE THEN <<RlpUint(t.gas_price), RlpUint(t.gas_price)>>
    ELSE <<RlpUint(t.gas_price)>>

\* the encoding that is signed
UnsignedRlp(t) ==
    IF t.kind = "legacy"
    THEN RlpList(Concat(<<RlpUint(t.nonce), RlpUint(t.gas_price), RlpUint(t.gas_limit),
                          RlpString(t.to), RlpUint(t.value), RlpString(t.data)>>
                        \o (IF t.v >= 35
                            THEN <<RlpUint(t.chain_id), RlpUint(0), RlpUint(0)>>
                            ELSE <<>>)))
    ELSE <<t.type>> \o
         RlpList(Concat(<<RlpUint(t.chain_id), RlpUint(t.nonce)>> \o FeeFields(t)
                        \o <<RlpUint(t.gas_limit), RlpString(t.to),
                             RlpUint(t.value), RlpString(t.data), EmptyAccessList>>))

SigningHash(t) == Keccak(UnsignedRlp(t))

\* the signed encoding: the list itself for a legacy transaction, the type
\* byte followed by the list for a typed one
SignedRlp(t) ==
    LET sig == Sign(PubKey(t.signer), SigningHash(t)) IN
    IF t.kind = "legacy"
    THEN RlpList(Concat(<<RlpUint(t.nonce), RlpUint(t.gas_price), RlpUint(t.gas_limit),
                          RlpString(t.to), RlpUint(t.value), RlpString(t.data),
                          RlpUint(t.v), RlpString(sig.r), RlpString(sig.s)>>))
    ELSE <<t.type>> \o
         RlpList(Concat(<<RlpUint(t.chain_id), RlpUint(t.nonce)>> \o FeeFields(t)
                        \o <<RlpUint(t.gas_limit), RlpString(t.to),
                             RlpUint(t.value), RlpString(t.data), EmptyAccessList,
                             RlpUint(t.v), RlpString(sig.r), RlpString(sig.s)>>))

\* recover_tx_info: signature, message hash and public key of a transaction
RecoverTxInfo(t) ==
    [signature |-> Sign(PubKey(t.signer), SigningHash(t)),
     message_hash |-> SigningHash(t),
     public_key |-> PubKey(t.signer)]

AddressOf(n) == LeftPad(MinBytes(n), AddressBytes)

Erc20Recipient == 4660
Erc20Amount == 777

\* transfer(address,uint256) call data: selector, recipient word, amount word
TransferCalldata ==
    FUNCTION_SELECTOR_ERC20_TRANSFER
        \o LeftPad(MinBytes(Erc20Recipient), ERC20_TO_ADDRESS_BYTES_LEN)
        \o LeftPad(MinBytes(Erc20Amount),
                   CALLDATA_BYTES_LEN - FUNCTION_SELECTOR_BYTES_LEN - ERC20_TO_ADDRESS_BYTES_LEN)

\* call data of the transfer length with another selector
OtherCalldata ==
    <<35, 184, 114, 221>> \o SubSeq(TransferCalldata, FUNCTION_SELECTOR_BYTES_LEN + 1,
                                     CALLDATA_BYTES_LEN)

DataSamples == {<<>>, FUNCTION_SELECTOR_ERC20_TRANSFER, TransferCalldata, OtherCalldata}

\* call data that makes the encoding of a legacy transaction 256 bytes or
\* longer, so that its first byte is 0xf9
LongCalldata == Fill(160, 7)

LegacyVs == {27, 37, 38}

TxOf(kind, v, data, value, signer) ==
    [kind |-> kind,
     type |-> EIP_1559_TX_TYPE,
     chain_id |-> IF kind = "legacy" THEN (IF v >= 35 THEN (v - 35) \div 2 ELSE 0) ELSE 5,
     nonce |-> 3,
     gas_price |-> 300,
     gas_limit |-> 21000,
     to |-> AddressOf(43981),
     value |-> value,
     data |-> data,
     v |-> v,
     signer |-> signer]

TxSamples ==
    {TxOf("legacy", v, d, val, sg) : v \in LegacyVs, d \in DataSamples,
                                     val \in {0, MaxValue}, sg \in {1}}
    \cup {TxOf("typed", 1, d, val, sg) : d \in DataSamples, val \in {0, MaxValue}, sg \in {2}}
    \cup {TxOf("legacy", 37, LongCalldata, 0, 1)}
    \cup {[TxOf("typed", 1, d, val, 2) EXCEPT !.type = EIP_2930_TX_TYPE] :
             d \in {<<>>, FUNCTION_SELECTOR_ERC20_TRANSFER}, val \in {0, MaxValue}}

\* a transaction of another sender
ForeignTx == TxOf("legacy", 37, <<>>, 1, 3)

(***************************************************************************)
(* Transactions trie (MPT chip), for a block holding one transaction       *)
(***************************************************************************)
\* the position in its block of the transaction whose proof is given
TxKeyIndex == 1

\* get_buffer_rlp: the trie key of a transaction index
GetBufferRlp(index) == RlpUint(index)

\* leaf node: compact path of the whole key (even length, leaf flag) and value
LeafNode(key, value) == RlpList(RlpString(<<32>> \o key) \o RlpString(value))

\* parse_mpt_inclusion_phase0: the proof is one leaf whose hash is the root;
\* an inclusion claim needs the leaf to carry the key and the value, an
\* exclusion claim needs a leaf of another key
ParseMptInclusionPhase0(p) ==
    LET one    == Len(p.proof) = 1
        hashed == one /\ Keccak(p.proof[1]) = p.root_hash_bytes
        Leaf(node) ==
            LET path  == SubSeq(node.field_witness[1].field_cells, 1,
                                node.field_witness[1].field_len)
                value == SubSeq(node.field_witness[2].field_cells, 1,
                                node.field_witness[2].field_len)
                same  == one /\ node.ok /\ path = <<32>> \o p.key_bytes
                         /\ value = SubSeq(p.value_bytes, 1, p.value_byte_len)
                other == one /\ node.ok /\ path # <<32>> \o p.key_bytes
            IN  IF p.slot_is_empty = 0 THEN same ELSE other
    IN  [slot_is_empty |-> p.slot_is_empty,
         ok |-> hashed /\ Leaf(DecomposeRlpArray(p.proof[1], <<4, TX_MAX_LEN>>))]

(***************************************************************************)
(* Transaction circuit (src/transaction/ethereum/mod.rs)                   *)
(***************************************************************************)
LegacyDataMaxLen == 100

\* [nonce, gasPrice, gasLimit, to, value, data, v, r, s]
EIP_2718_TX_TYPE_FIELDS_MAX_FIELDS_LEN ==
    <<32, 32, 32, AddressBytes, 32, LegacyDataMaxLen, 32, 32, 32>>

\* [chainId, nonce, maxPriorityFeePerGas, maxFeePerGas, gasLimit, to, value,
\*  data, accessList, v, r, s]
calculate_tx_max_fields_len(len) ==
    <<32, 32, 32, 32, 32, AddressBytes, 32, len, len, 32, 32, 32>>

\* element i of a Vec, 0-based
Index(vec, i) == vec[i + 1]

\* the cells the call-data loop works on
CalldataCells(field_cells) == Slice(field_cells, 0, CALLDATA_BYTES_LEN - 1)

\* the legacy chain id: v - 35, its quotient and remainder by 2, the
\* comparison of the recomposed dividend, then (v - num_sub) / 2 in the field
LegacyChainId(tx_v) ==
    LET dividend == FSub(tx_v, 35)
        dm == DivMod(dividend, 2)
        divisor_mul_quotient == FMulConst(2, dm.quotient)
        expect_dividend == FAdd(divisor_mul_quotient, dm.remainder)
        is_equal == IsEqual(dividend, expect_dividend)
        num_sub == FSub(36, is_equal)
        tx_v_sub_num_sub == FSub(tx_v, num_sub)
    IN  [chain_id |-> FDiv2(tx_v_sub_num_sub), range_ok |-> dm.ok]

\* the number of bytes hashed for the transaction hash: the RLP length plus
\* join_hash_len (line 645)
RealJoinHashLenBug(rlp_len, join_hash_len) == rlp_len

RealJoinHashLen(rlp_len, join_hash_len) == FAdd(rlp_len, join_hash_len)

\* the offset of the sender address in the hash of the public key
FromBytesBug(hash) == Slice(hash, 0, AddressBytes)

FromBytes(hash) == Slice(hash, FromOffset, HashBytes)

\* the value the ECDSA verification result is constrained to
EcdsaExpected == 1

\* the legacy marker check of the branch taken when the type comparison is 0
\* (lines 502-505)
LegacyTypeConstraintsBug(legacy, transaction_type) == <<>>

LegacyTypeConstraints(legacy, transaction_type) ==
    IF legacy
    THEN <<[name |-> "legacy_type", lhs |-> transaction_type, rhs |-> EIP_2718_TX_TYPE]>>
    ELSE <<>>

\* the positions the fields are read from (lines 530-535, 565-569)
TxFieldIndicesBug(legacy) ==
    [calldata_idx |-> 5, to_idx |-> 3, amount_idx |-> 4, nonce_idx |-> 0]

TxFieldIndicesBug2930(legacy) ==
    IF legacy
    THEN [calldata_idx |-> 5, to_idx |-> 3, amount_idx |-> 4, nonce_idx |-> 0]
    ELSE [calldata_idx |-> 6, to_idx |-> 4, amount_idx |-> 5, nonce_idx |-> 1]

TxFieldIndices(legacy) ==
    IF legacy
    THEN [calldata_idx |-> 5, to_idx |-> 3, amount_idx |-> 4, nonce_idx |-> 0]
    ELSE [calldata_idx |-> 7, to_idx |-> 5, amount_idx |-> 6, nonce_idx |-> 1]

\* dest_transfer_address and dest_transfer_token (lines 677-679)
DestTransferBug(zero, tx_to, tx_token) == [address |-> tx_to, token |-> tx_token]

DestTransfer(zero, tx_to, tx_token) == [address |-> zero, token |-> zero]

parse_transaction_extra_proof(transaction_value, transaction_ecdsa_verify) ==
    LET transaction_type == transaction_value[1]
        is_not_legacy_transaction ==
            IsLessThan(transaction_type, EIP_TX_TYPE_CRITICAL_VALUE)
        legacy == is_not_legacy_transaction = 0
        \* host-level branch on the witnessed comparison (lines 503-513)
        field_lens == IF legacy THEN EIP_2718_TX_TYPE_FIELDS_MAX_FIELDS_LEN
                      ELSE calculate_tx_max_fields_len(Len(transaction_value))
        transaction_rlp_bytes == IF legacy THEN transaction_value
                                 ELSE Slice(transaction_value, 1, Len(transaction_value))
        join_hash_len == IF legacy THEN 0 ELSE 1
        type_constraints == LegacyTypeConstraints(legacy, transaction_type)
        \* host-level branch on the same value (lines 530-577)
        calldata_idx == TxFieldIndices(legacy).calldata_idx
        to_idx == TxFieldIndices(legacy).to_idx
        amount_idx == TxFieldIndices(legacy).amount_idx
        nonce_idx == TxFieldIndices(legacy).nonce_idx
        \* call data (lines 588-643) over the sliced cells
        CalldataFields(len_matches, calldata, outer_to, outer_amount) ==
            LET \* the loop reads calldata[i + 1] and calldata[i] for i in
                \* 0..C-2, and calldata[C - 1] after the loop
                out_of_bounds ==
                    \/ \E i \in 0..(CALLDATA_BYTES_LEN - 2) : i + 1 >= Len(calldata)
                    \/ CALLDATA_BYTES_LEN - 1 >= Len(calldata)
                new_calldata == [i \in 1..CALLDATA_BYTES_LEN |-> calldata[i]]
                is_function_selector ==
                    IF \A i \in 0..(FUNCTION_SELECTOR_BYTES_LEN - 1) :
                            Index(calldata, i) = Index(FUNCTION_SELECTOR_ERC20_TRANSFER, i)
                    THEN 1 ELSE 0
                is_erc20 == len_matches /\ ~out_of_bounds /\ is_function_selector # 0
                erc20_to ==
                    EvalField(Slice(new_calldata, FUNCTION_SELECTOR_BYTES_LEN,
                                    FUNCTION_SELECTOR_BYTES_LEN + ERC20_TO_ADDRESS_BYTES_LEN))
                erc20_amount ==
                    EvalField(Slice(new_calldata,
                                    FUNCTION_SELECTOR_BYTES_LEN + ERC20_TO_ADDRESS_BYTES_LEN,
                                    CALLDATA_BYTES_LEN))
            IN  [panic |-> len_matches /\ out_of_bounds,
                 to |-> IF is_erc20 THEN erc20_to ELSE outer_to,
                 token |-> IF is_erc20 THEN outer_to ELSE 0,
                 amount |-> IF is_erc20 THEN erc20_amount ELSE outer_amount]
        \* the result, from the decomposed fields, the decoded chain id and
        \* call data, the transaction hash (lines 645-657) and the sender
        \* (lines 659-672)
        Result(transaction_witness, fw, legacy_chain, cd, real_join_hash_len) ==
            [panic |-> cd.panic,
             constraints |->
                type_constraints
                \o <<[name |-> "tx_rlp", lhs |-> transaction_witness.ok, rhs |-> TRUE]>>
                \o (IF legacy
                    THEN <<[name |-> "div_mod_range", lhs |-> legacy_chain.range_ok,
                            rhs |-> TRUE]>>
                    ELSE <<>>)
                \o <<[name |-> "ecdsa",
                      lhs |-> EcdsaPubkeyVerify(transaction_ecdsa_verify),
                      rhs |-> EcdsaExpected]>>,
             shape |-> [field_lens |-> field_lens,
                        rlp_offset |-> IF legacy THEN 0 ELSE 1,
                        join_hash_len |-> join_hash_len,
                        legacy_type_constraint |-> legacy,
                        calldata_idx |-> calldata_idx,
                        to_idx |-> to_idx,
                        amount_idx |-> amount_idx,
                        nonce_idx |-> nonce_idx],
             transaction_witness |-> transaction_witness,
             var_len_query |-> [input |-> transaction_value, len |-> real_join_hash_len],
             fixed_len_query |-> [input |-> transaction_ecdsa_verify.public_key],
             extra_witness |->
                [hash |-> BytesBeToU128(KeccakVarLen(transaction_value, real_join_hash_len)),
                 chain_id |-> IF legacy THEN legacy_chain.chain_id
                              ELSE FieldToUint(Index(fw, 0)),
                 from |-> EvalField(FromBytes(Keccak(transaction_ecdsa_verify.public_key))),
                 to |-> cd.to,
                 token |-> cd.token,
                 amount |-> cd.amount,
                 nonce |-> FieldToUint(Index(fw, nonce_idx)),
                 dest_transfer_address |-> DestTransfer(0, cd.to, cd.token).address,
                 dest_transfer_token |-> DestTransfer(0, cd.to, cd.token).token]]
        Fields(transaction_witness, fw) ==
            Result(transaction_witness, fw,
                   LegacyChainId(FieldToUint(Index(fw, 6))),
                   CalldataFields(Index(fw, calldata_idx).field_len = CALLDATA_BYTES_LEN,
                                  CalldataCells(Index(fw, calldata_idx).field_cells),
                                  FieldToUint(Index(fw, to_idx)),
                                  FieldToUint(Index(fw, amount_idx))),
                   RealJoinHashLen(transaction_witness.rlp_len, join_hash_len))
        Decomposed(transaction_witness) ==
            Fields(transaction_witness, transaction_witness.field_witness)
    IN  Decomposed(DecomposeRlpArray(transaction_rlp_bytes, field_lens))

\* the zip of the proof root with the transactions root of the header
\* (lines 449-456)
RootConstraintsBug(root_hash_bytes, transactions_root) ==
    [k \in 1..Len(root_hash_bytes) |->
        [name |-> "root", idx |-> k, lhs |-> root_hash_bytes[k], rhs |-> root_hash_bytes[k]]]

RootConstraints(root_hash_bytes, transactions_root) ==
    [k \in 1..Min(Len(root_hash_bytes), Len(transactions_root)) |->
        [name |-> "root", idx |-> k, lhs |-> root_hash_bytes[k], rhs |-> transactions_root[k]]]

\* parse_transaction_proof_phase0: the proof root is constrained, byte by
\* byte, to the transactions root of the header; then inclusion and decoding
parse_transaction_proof_phase0(transactions_root, transaction_input) ==
    LET proofs == transaction_input.transaction_proofs
        root_constraints == RootConstraints(proofs.root_hash_bytes, transactions_root)
        Witness(mpt_witness, extra) ==
            [panic |-> extra.panic,
             constraints |-> root_constraints
                             \o <<[name |-> "mpt", lhs |-> mpt_witness.ok, rhs |-> TRUE]>>
                             \o extra.constraints,
             mpt_witness |-> mpt_witness,
             extra |-> extra]
    IN  Witness(ParseMptInclusionPhase0(proofs),
                parse_transaction_extra_proof(proofs.value_bytes,
                                              transaction_input.transaction_ecdsa_verify))

\* the inputs of one run: a transaction of the samples, the header of the
\* block that holds it or of a block that does not, the bytes after the
\* encoding, the ECDSA input and the emptiness flag
TxInputOf(t, tail, ecdsa, slot_is_empty, own_header, transaction_index) ==
    LET enc == SignedRlp(t)
        \* the key is transaction_index_bytes, or else made from the index
        key == GetBufferRlp(TxKeyIndex)
        leaf == LeafNode(key, enc)
        block == IF own_header
                 THEN [BlockOf(Fill(HashBytes, 9), 7) EXCEPT !.transactions_root = Keccak(leaf)]
                 ELSE BlockOf(Fill(HashBytes, 9), 7)
    IN  [block_hash |-> Keccak(GetBlockRlp(block)),
         block_header |-> GetBlockRlp(block),
         transaction |->
            [transaction_index |-> transaction_index,
             transaction_proofs |->
                [key_bytes |-> key,
                 value_bytes |-> Resize(enc, TX_MAX_LEN, tail),
                 value_byte_len |-> Len(enc),
                 root_hash_bytes |-> Keccak(leaf),
                 proof |-> <<leaf>>,
                 slot_is_empty |-> slot_is_empty],
             transaction_ecdsa_verify |-> ecdsa]]

\* ECDSA inputs a prover can supply with transaction t: its own, that of a
\* transaction of another sender, and one whose signature does not verify
EcdsaChoices(t) ==
    {RecoverTxInfo(t),
     RecoverTxInfo(ForeignTx),
     [RecoverTxInfo(t) EXCEPT !.message_hash = Keccak(<<1>>)]}

TailBytes == {0, 238}

InitTx ==
    /\ circuit = "transaction"
    /\ pc = "phase0"
    /\ digest_reads = <<>>
    /\ hc_input = None
    /\ gb_args = None
    /\ gb_files = None
    /\ gb_result = None
    /\ \E t \in TxSamples, tail \in TailBytes, slot \in {0, 1}, own_header \in BOOLEAN,
          transaction_index \in {TxKeyIndex, TxKeyIndex + 1} :
         \E ecdsa \in EcdsaChoices(t) :
            /\ own_header \/ tail = 0
            /\ transaction_index = TxKeyIndex \/ (own_header /\ tail = 0 /\ slot = 0)
            /\ tx_fetched = [tx |-> t, enc |-> SignedRlp(t)]
            /\ tx_input = TxInputOf(t, tail, ecdsa, slot, own_header, transaction_index)
    /\ tx_witness = None
    /\ tx_trace = None
    /\ tx_shape = None
    /\ tb_input = <<>>
    /\ tb_i = 0
    /\ parent_hash = <<>>
    /\ block_witness = <<>>
    /\ block_trace = <<>>
    /\ constraints = <<>>
    /\ var_len_queries = <<>>
    /\ fixed_len_queries = <<>>
    /\ digest = None
    /\ assigned_instances = <<>>

\* parse_transaction_proof_from_block_phase0
TxPhase0 ==
    /\ circuit = "transaction"
    /\ pc = "phase0"
    /\ \E bw \in {DecomposeBlockHeaderPhase0(
                        Resize(tx_input.block_header, BlockHeaderRlpMaxBytes, 0))} :
       \E r \in {parse_transaction_proof_phase0(get_transactions_root(bw).field_cells,
                                                tx_input.transaction)} :
       LET block_hash == BytesBeToU128(bw.block_hash)
           time_stamp == FieldToUint(get_timestamp(bw))
           ew == r.extra.extra_witness
       IN  IF r.panic
           THEN /\ pc' = "panic"
                /\ UNCHANGED <<constraints, var_len_queries, fixed_len_queries, digest,
                               tx_witness, tx_shape, digest_reads>>
           ELSE /\ pc' = "create"
                /\ constraints' = constraints
                     \o <<[name |-> "header_rlp", lhs |-> bw.ok, rhs |-> TRUE]>>
                     \o r.constraints
                /\ var_len_queries' = var_len_queries
                     \o <<bw.hash_query, r.extra.var_len_query>>
                /\ fixed_len_queries' = Append(fixed_len_queries, r.extra.fixed_len_query)
                \* the output cells of the three queries are taken as soon as
                \* they are queued (lines 385, 655, 668)
                /\ digest_reads' = digest_reads
                     \o <<[query |-> "var_len", idx |-> Len(var_len_queries) + 1,
                           phase |-> FIRST_PHASE],
                          [query |-> "var_len", idx |-> Len(var_len_queries) + 2,
                           phase |-> FIRST_PHASE],
                          [query |-> "fixed_len", idx |-> Len(fixed_len_queries) + 1,
                           phase |-> FIRST_PHASE]>>
                /\ digest' =
                     [index |-> tx_input.transaction.transaction_index,
                      block_hash |-> block_hash,
                      transaction_is_empty |-> r.mpt_witness.slot_is_empty,
                      transaction_field |->
                         [hash |-> ew.hash,
                          chain_id |-> ew.chain_id,
                          from |-> ew.from,
                          to |-> ew.to,
                          token |-> ew.token,
                          amount |-> ew.amount,
                          nonce |-> ew.nonce,
                          time_stamp |-> time_stamp,
                          dest_transfer_address |-> ew.dest_transfer_address,
                          dest_transfer_token |-> ew.dest_transfer_token]]
                /\ tx_witness' =
                     [block_witness |-> bw,
                      transaction_witness |->
                         [transaction_witness |-> r.extra.transaction_witness,
                          mpt_witness |-> r.mpt_witness,
                          extra_witness |-> ew]]
                /\ tx_shape' = r.extra.shape
    /\ UNCHANGED <<tx_input, tx_fetched, tx_trace, assigned_instances>>
    /\ UNCHANGED <<circuit, hc_vars, gb_vars>>
    /\ UNCHANGED tb_vars

\* the order of the instance cells (lines 169-184)
TxAssignedInstancesBug(d) ==
    LET f == d.transaction_field IN
    <<d.block_hash[1], d.block_hash[2], f.hash[1], f.hash[2],
      f.chain_id, d.index, f.to, f.from, f.token, f.amount, f.nonce, f.time_stamp,
      f.dest_transfer_address, f.dest_transfer_token>>

TxAssignedInstances(d) ==
    LET f == d.transaction_field IN
    <<d.block_hash[1], d.block_hash[2], f.hash[1], f.hash[2],
      f.chain_id, d.index, f.from, f.to, f.token, f.amount, f.nonce, f.time_stamp,
      f.dest_transfer_address, f.dest_transfer_token>>

\* EthBlockTransactionCircuit::create after phase 0
TxCreate ==
    /\ circuit = "transaction"
    /\ pc = "create"
    /\ assigned_instances' = TxAssignedInstances(digest)
    /\ constraints' = Append(constraints,
                             [name |-> "transaction_is_empty",
                              lhs |-> digest.transaction_is_empty, rhs |-> 0])
    /\ pc' = "phase1"
    /\ UNCHANGED <<var_len_queries, fixed_len_queries, digest>>
    /\ UNCHANGED tx_vars
    /\ UNCHANGED <<circuit, digest_reads, hc_vars, gb_vars>>
    /\ UNCHANGED tb_vars

\* parse_transaction_proof_from_block_phase1
TxPhase1 ==
    /\ circuit = "transaction"
    /\ pc = "phase1"
    /\ tx_trace' =
         [block_trace |-> DecomposeBlockHeaderPhase1(tx_witness.block_witness),
          transaction_trace |->
             [value_trace |->
                 [k \in 1..Len(tx_witness.transaction_witness.transaction_witness.field_witness) |->
                     tx_witness.transaction_witness.transaction_witness.field_witness[k].field_len]]]
    /\ pc' = "done"
    /\ UNCHANGED <<constraints, var_len_queries, fixed_len_queries, digest, assigned_instances,
                   tx_input, tx_fetched, tx_witness, tx_shape>>
    /\ UNCHANGED <<circuit, digest_reads, hc_vars, gb_vars>>
    /\ UNCHANGED tb_vars

\* EthBlockTransactionCircuit::instance: the two limbs of inputs.block_hash
\* (encode_h256_to_field) and nothing else
TxInstance(inputs) == BytesBeToU128(inputs.block_hash)

NextTx ==
    \/ TxPhase0
    \/ TxCreate
    \/ TxPhase1

SpecTx == InitTx /\ [][NextTx]_vars

\* both circuits of src/
InitCircuits == InitTrack \/ InitTx

NextCircuits == NextTrack \/ NextTx

SpecCircuits == InitCircuits /\ [][NextCircuits]_vars

(***************************************************************************)
(* get_blocks_input (src/providers.rs)                                     *)
(***************************************************************************)
\* the chain the provider serves: element n is block number n
ProviderBlocks == <<Block1, Block2, Block3, Block4>>

\* provider.get_block(n): the block, or None past the head of the chain
GetBlock(n) == IF n \in 1..Len(ProviderBlocks) THEN ProviderBlocks[n].block ELSE None

\* get_blocks: one answer per block number of start..end-1
GetBlocks(start, end) == [k \in 1..(end - start) |-> GetBlock(start + k - 1)]

\* the cache file name: chain id and the two ends of the range
ChainDataPath(start_block_number, end_block_number) ==
    <<start_block_number, end_block_number>>

\* the file an earlier call for the same range has written
ProcessedBlock(start_block_number, end_block_number) ==
    [path |-> ChainDataPath(start_block_number, end_block_number),
     block_rlps |-> [k \in 1..(end_block_number - start_block_number + 1) |->
                        GetBlockRlp(GetBlock(start_block_number + k - 1))]]

\* pad to correct length with dummies (lines 800-802)
PadBlockRlpsBug(block_rlps, len) == Resize(block_rlps, len, block_rlps[Len(block_rlps)])

PadBlockRlps(block_rlps, len) == Resize(block_rlps, len, block_rlps[1])

GbArgs ==
    [start_block_number : 1..Len(ProviderBlocks),
     num_blocks : 0..(2^MaxDepth + 1),
     max_depth : 0..MaxDepth]

InitBlocks ==
    /\ circuit = "get_blocks_input"
    /\ pc = "call"
    /\ gb_args \in GbArgs
    /\ \/ gb_files = {}
       \/ /\ gb_args.num_blocks > 0
          /\ gb_args.start_block_number + gb_args.num_blocks - 1 <= Len(ProviderBlocks)
          /\ gb_files = {ProcessedBlock(gb_args.start_block_number,
                                        gb_args.start_block_number + gb_args.num_blocks - 1)}
    /\ gb_result = None
    /\ digest_reads = <<>>
    /\ hc_input = None
    /\ tb_input = <<>>
    /\ tb_i = 0
    /\ parent_hash = <<>>
    /\ block_witness = <<>>
    /\ block_trace = <<>>
    /\ constraints = <<>>
    /\ var_len_queries = <<>>
    /\ fixed_len_queries = <<>>
    /\ digest = None
    /\ assigned_instances = <<>>
    /\ tx_input = None
    /\ tx_fetched = None
    /\ tx_witness = None
    /\ tx_trace = None
    /\ tx_shape = None

\* get_blocks_input: the two asserts, the cached file or the fetch that
\* writes it, then the padding
GetBlocksInput ==
    /\ circuit = "get_blocks_input"
    /\ pc = "call"
    /\ LET start_block_number == gb_args.start_block_number
           num_blocks == gb_args.num_blocks
           end_block_number == start_block_number + num_blocks - 1
           path == ChainDataPath(start_block_number, end_block_number)
           cached == {f \in gb_files : f.path = path}
           blocks == GetBlocks(start_block_number, start_block_number + num_blocks)
           found == \A k \in 1..Len(blocks) : blocks[k] # None
           block_rlps ==
               IF cached # {} THEN (CHOOSE f \in cached : TRUE).block_rlps
               ELSE [k \in 1..Len(blocks) |-> GetBlockRlp(blocks[k])]
       IN  IF ~(num_blocks <= 2^gb_args.max_depth) \/ ~(num_blocks > 0)
           THEN /\ pc' = "panic"
                /\ UNCHANGED <<gb_files, gb_result>>
           ELSE IF cached = {} /\ ~found
           THEN /\ pc' = "panic"
                /\ UNCHANGED <<gb_files, gb_result>>
           ELSE /\ pc' = "returned"
                /\ gb_files' = IF cached # {} THEN gb_files
                               ELSE gb_files \cup {[path |-> path, block_rlps |-> block_rlps]}
                /\ gb_result' = PadBlockRlps(block_rlps, 2^gb_args.max_depth)
    /\ UNCHANGED <<circuit, gb_args, digest_reads, hc_vars, constraints, var_len_queries,
                   fixed_len_queries, digest, assigned_instances>>
    /\ UNCHANGED tb_vars
    /\ UNCHANGED tx_vars

NextBlocks == GetBlocksInput

SpecBlocks == InitBlocks /\ [][NextBlocks]_vars

(***************************************************************************)
(* Header-chain circuit and single-header test circuit                     *)
(* (block_header::EthBlockHeaderChainCircuit, block_header/tests.rs)       *)
(***************************************************************************)
GoerliBlocks == <<Block1, Block2, Block3, Block4, Block5, Block6, Block7, Block8>>

\* block_vec.resize(block_header_config.block_header_rlp_max_bytes, 0)
PaddedHeader(fetched) == Resize(fetched.block_header, BlockHeaderRlpMaxBytes, 0)

\* the header put into the slots past num_blocks
DummyHeaderRlp(reals, padding) ==
    IF padding = "first" THEN reals[1]
    ELSE IF padding = "last" THEN reals[Len(reals)]
    ELSE PaddedHeader(Block3Skip)

\* the headers of blocks start..start+num_blocks-1; when not linked the last
\* one is replaced by the header of the block before the first
RealHeaders(start, num_blocks, linked) ==
    [k \in 1..num_blocks |->
        IF ~linked /\ k = num_blocks
        THEN PaddedHeader(GoerliBlocks[start - 1])
        ELSE PaddedHeader(GoerliBlocks[start + k - 1])]

HeaderChainInput(start, num_blocks, max_depth, linked, padding) ==
    LET Input(reals) ==
            [header_rlp_encodings |->
                 reals \o [k \in 1..(2^max_depth - num_blocks) |->
                              DummyHeaderRlp(reals, padding)],
             num_blocks |-> num_blocks,
             max_depth |-> max_depth,
             start |-> start,
             linked |-> linked,
             padding |-> padding]
    IN  Input(RealHeaders(start, num_blocks, linked))

\* the three header layouts of one block: without base fee, with base fee,
\* with base fee and withdrawals root
HeaderLayouts(block) ==
    {block,
     [block EXCEPT !.base_fee_per_gas = <<31491177>>],
     [block EXCEPT !.base_fee_per_gas = <<31491177>>,
                   !.withdrawals_root = <<Fill(HashBytes, 247)>>]}

HeaderTestInput(block) ==
    [header_rlp_encodings |-> <<PaddedHeader(Fetched(block))>>,
     num_blocks |-> 1,
     max_depth |-> 0,
     block |-> block]

InitHeaders ==
    /\ \/ /\ circuit = "header_chain"
          /\ \E max_depth \in 0..TestMaxDepth, start \in 2..3,
                linked \in BOOLEAN, padding \in {"first", "last", "other"} :
                \E num_blocks \in 1..(2^max_depth) :
                   /\ start + num_blocks - 1 <= Len(GoerliBlocks)
                   /\ linked \/ num_blocks > 1
                   /\ padding = "first" \/ num_blocks < 2^max_depth
                   /\ hc_input = HeaderChainInput(start, num_blocks, max_depth,
                                                  linked, padding)
       \/ /\ circuit = "header_test"
          /\ \E k \in 1..Len(GoerliBlocks) :
                \E block \in HeaderLayouts(GoerliBlocks[k].block) :
                   hc_input = HeaderTestInput(block)
    /\ pc = "phase0"
    /\ gb_args = None
    /\ gb_files = None
    /\ gb_result = None
    /\ digest_reads = <<>>
    /\ tb_input = <<>>
    /\ tb_i = 0
    /\ parent_hash = <<>>
    /\ block_witness = <<>>
    /\ block_trace = <<>>
    /\ constraints = <<>>
    /\ var_len_queries = <<>>
    /\ fixed_len_queries = <<>>
    /\ digest = None
    /\ assigned_instances = <<>>
    /\ tx_input = None
    /\ tx_fetched = None
    /\ tx_witness = None
    /\ tx_trace = None
    /\ tx_shape = None

IsHeaderCircuit == circuit \in {"header_chain", "header_test"}

\* decompose_block_header_chain_phase0: one witness and one queued hash per
\* header, padding slots included
HeadersPhase0 ==
    /\ IsHeaderCircuit
    /\ pc = "phase0"
    /\ \E chain_witness \in {[k \in 1..Len(hc_input.header_rlp_encodings) |->
                                DecomposeBlockHeaderPhase0(hc_input.header_rlp_encodings[k])]} :
          /\ block_witness' = chain_witness
          /\ var_len_queries' = var_len_queries
                \o [k \in 1..Len(chain_witness) |-> chain_witness[k].hash_query]
          /\ constraints' = constraints
                \o [k \in 1..Len(chain_witness) |->
                      [name |-> "header_rlp", idx |-> k - 1, limb |-> 0,
                       lhs |-> chain_witness[k].ok, rhs |-> TRUE]]
    /\ pc' = "create"
    /\ UNCHANGED <<circuit, digest_reads, hc_vars, gb_vars>>
    /\ UNCHANGED tx_vars
    /\ UNCHANGED <<tb_input, tb_i, parent_hash, block_trace, fixed_len_queries, digest,
                   assigned_instances>>

\* root of the perfect tree over leaves[lo..hi]
RECURSIVE MerkleRoot(_, _, _)
MerkleRoot(leaves, lo, hi) ==
    IF lo = hi THEN leaves[lo]
    ELSE LET mid == (lo + hi - 1) \div 2
         IN  Keccak(MerkleRoot(leaves, lo, mid) \o MerkleRoot(leaves, mid + 1, hi))

\* the peak of size 2^i, taken from the tree over all slots: present when
\* bit i of num_blocks is set, and then it covers the leaves after the
\* larger mountains
MmrPeakStart(num_blocks, i) == (num_blocks \div 2^(i + 1)) * 2^(i + 1)

MmrPeak(hashes, num_blocks, i) ==
    IF (num_blocks \div 2^i) % 2 = 1
    THEN MerkleRoot(hashes, MmrPeakStart(num_blocks, i) + 1,
                    MmrPeakStart(num_blocks, i) + 2^i)
    ELSE Zeros(HashBytes)

\* largest mountain first
MerkleMountainRange(hashes, num_blocks, max_depth) ==
    [k \in 1..(max_depth + 1) |-> MmrPeak(hashes, num_blocks, max_depth + 1 - k)]

\* [start_block_number, end_block_number, merkle_mountain_range_digest...]
HeaderChainInstances(chain_witness, num_blocks, max_depth) ==
    <<FieldToUint(get_number(chain_witness[1])),
      FieldToUint(get_number(chain_witness[num_blocks]))>>
    \o Concat([k \in 1..(max_depth + 1) |->
                 BytesBeToU128(MerkleMountainRange(
                     [j \in 1..Len(chain_witness) |-> chain_witness[j].block_hash],
                     num_blocks, max_depth)[k])])

\* EthCircuitBuilder::new(assigned_instances, ...): the chain circuit exposes
\* block numbers and digest, the test circuit passes vec![]
HeadersCreate ==
    /\ IsHeaderCircuit
    /\ pc = "create"
    /\ assigned_instances' =
          IF circuit = "header_chain"
          THEN HeaderChainInstances(block_witness, hc_input.num_blocks, hc_input.max_depth)
          ELSE <<>>
    /\ pc' = "phase1"
    /\ UNCHANGED <<circuit, digest_reads, hc_vars, gb_vars>>
    /\ UNCHANGED tx_vars
    /\ UNCHANGED <<tb_input, tb_i, parent_hash, block_witness, block_trace, constraints,
                   var_len_queries, fixed_len_queries, digest>>

\* whether the parent hash of header idx + 1 is the hash of header idx
HashCheck(chain_witness, idx) ==
    IsEqual(SubSeq(get_parent_hash(chain_witness[idx + 1]).field_cells, 1, HashBytes),
            chain_witness[idx].block_hash)

RECURSIVE SumOf(_, _)
SumOf(s, n) == IF n = 0 THEN 0 ELSE SumOf(s, n - 1) + s[n]

\* the chain-link constraints: every link when no block count is given
\* (the empty sequence), otherwise the links among the first num_blocks
\* headers only
ChainLinkConstraintsBug(hash_checks, num_blocks_minus_one) ==
    [k \in 1..Len(hash_checks) |->
        [name |-> "link", idx |-> k, limb |-> 0, lhs |-> hash_checks[k], rhs |-> 1]]

ChainLinkConstraints(hash_checks, num_blocks_minus_one) ==
    IF num_blocks_minus_one = <<>>
    THEN [k \in 1..Len(hash_checks) |->
            [name |-> "link", idx |-> k, limb |-> 0, lhs |-> hash_checks[k], rhs |-> 1]]
    ELSE <<[name |-> "link_sum", idx |-> num_blocks_minus_one[1], limb |-> 0,
            lhs |-> SumOf(hash_checks, num_blocks_minus_one[1]),
            rhs |-> num_blocks_minus_one[1]]>>

\* decompose_block_header_chain_phase1: one trace per witness, a link check
\* for every pair of neighbours, padding included
HeadersPhase1 ==
    /\ IsHeaderCircuit
    /\ pc = "phase1"
    /\ block_trace' = [k \in 1..Len(block_witness) |->
                          DecomposeBlockHeaderPhase1(block_witness[k])]
    /\ constraints' = constraints
          \o ChainLinkConstraints([idx \in 1..(Len(block_witness) - 1) |->
                                      HashCheck(block_witness, idx)],
                                  IF circuit = "header_chain"
                                  THEN <<hc_input.num_blocks - 1>> ELSE <<>>)
    /\ pc' = "done"
    /\ UNCHANGED <<circuit, digest_reads, hc_vars, gb_vars>>
    /\ UNCHANGED tx_vars
    /\ UNCHANGED <<tb_input, tb_i, parent_hash, block_witness, var_len_queries,
                   fixed_len_queries, digest, assigned_instances>>

NextHeaders ==
    \/ HeadersPhase0
    \/ HeadersCreate
    \/ HeadersPhase1

SpecHeaders == InitHeaders /\ [][NextHeaders]_vars

(***************************************************************************)
(* Provider functions called on their own (src/providers.rs)               *)
(***************************************************************************)
\* no circuit is being built
NoCircuit ==
    /\ digest_reads = <<>>
    /\ hc_input = None
    /\ tb_input = <<>>
    /\ tb_i = 0
    /\ parent_hash = <<>>
    /\ block_witness = <<>>
    /\ block_trace = <<>>
    /\ constraints = <<>>
    /\ var_len_queries = <<>>
    /\ fixed_len_queries = <<>>
    /\ digest = None
    /\ assigned_instances = <<>>
    /\ tx_input = None
    /\ tx_fetched = None
    /\ tx_witness = None
    /\ tx_trace = None
    /\ tx_shape = None

NoCircuitUnchanged ==
    /\ UNCHANGED <<circuit, gb_args, gb_files, digest_reads, hc_vars, constraints,
                   var_len_queries, fixed_len_queries, digest, assigned_instances>>
    /\ UNCHANGED tb_vars
    /\ UNCHANGED tx_vars

\* the four combinations of the two optional header fields
OptionalFieldLayouts(block) ==
    HeaderLayouts(block) \cup {[block EXCEPT !.withdrawals_root = <<Fill(HashBytes, 247)>>]}

\* a hash that differs from h in byte k
OtherHash(h, k) == [h EXCEPT ![k] = (h[k] + 1) % 256]

\* block.hash as the provider reports it: right, wrong in one byte, or absent
ClaimedHashes(block) ==
    {<<>>, <<Keccak(GetBlockRlp(block))>>,
     <<OtherHash(Keccak(GetBlockRlp(block)), 1)>>,
     <<OtherHash(Keccak(GetBlockRlp(block)), HashBytes)>>}

InitBlockRlp ==
    /\ circuit = "get_block_rlp"
    /\ pc = "call"
    /\ \E k \in 1..Len(GoerliBlocks) :
          \E block \in OptionalFieldLayouts(GoerliBlocks[k].block) :
             \E hash \in ClaimedHashes(block) :
                gb_args = [block |-> block, hash |-> hash]
    /\ gb_files = None
    /\ gb_result = None
    /\ NoCircuit

\* get_block_rlp: the encoding, then assert_eq!(keccak256(&encoding), block.hash.unwrap().0)
GetBlockRlpCall ==
    /\ circuit = "get_block_rlp"
    /\ pc = "call"
    /\ \E encoding \in {GetBlockRlp(gb_args.block)} :
          IF gb_args.hash = <<>> \/ Keccak(encoding) # gb_args.hash[1]
          THEN /\ pc' = "panic"
               /\ gb_result' = gb_result
          ELSE /\ pc' = "returned"
               /\ gb_result' = encoding
    /\ NoCircuitUnchanged

\* the nibbles of a byte string, high nibble first
Nibbles(bytes) ==
    [i \in 1..(2 * Len(bytes)) |->
        IF i % 2 = 1 THEN bytes[(i + 1) \div 2] \div 16 ELSE bytes[i \div 2] % 16]

\* is_odd of is_assigned_slot (line 546)
IsOddPrefixBug(b) == b \div 16 = 1

IsOddPrefix(b) == (b \div 16 = 1) \/ (b \div 16 = 3)

\* the loop over the proof nodes of is_assigned_slot, from node k on
RECURSIVE WalkProof(_, _, _, _)
WalkProof(key_nibbles, proof, k, key_frags) ==
    IF k > Len(proof) THEN [key_frags |-> key_frags, panic |-> FALSE]
    ELSE LET Node(items) ==
                 IF Len(items) = 2
                 THEN IF items[1] = <<>>
                      THEN [key_frags |-> key_frags, panic |-> TRUE]
                      ELSE WalkProof(key_nibbles, proof, k + 1,
                                     key_frags
                                     \o (IF IsOddPrefix(items[1][1])
                                         THEN <<items[1][1] % 16>> ELSE <<>>)
                                     \o Nibbles(Tail(items[1])))
                 ELSE IF Len(key_frags) >= Len(key_nibbles)
                      THEN [key_frags |-> key_frags, panic |-> TRUE]
                      ELSE WalkProof(key_nibbles, proof, k + 1,
                                     Append(key_frags, key_nibbles[Len(key_frags) + 1]))
         IN  Node(RlpItems(proof[k]))

\* is_assigned_slot: whether it panics, and otherwise the boolean returned
is_assigned_slot(key, proof) ==
    LET Result(w) ==
            [panic |-> w.panic,
             value |-> /\ ~w.panic
                       /\ Len(w.key_frags) = 2 * HashBytes
                       /\ \A idx \in 1..(2 * HashBytes) :
                             Nibbles(key)[idx] = w.key_frags[idx]]
    IN  Result(WalkProof(Nibbles(key), proof, 1, <<>>))

\* a 2-item node whose compact path carries the nibbles ns; flag 0 is an
\* extension and 2 a leaf, one more when the count is odd
ShortNode(flag, ns) ==
    IF Len(ns) % 2 = 1
    THEN [items |-> 2, flag |-> flag + 1, lead |-> ns[1], tail |-> Tail(ns)]
    ELSE [items |-> 2, flag |-> flag, lead |-> 0, tail |-> ns]

BranchNode == [items |-> 17, flag |-> 0, lead |-> 0, tail |-> <<>>]

\* the node as the provider returns it
NodeRlp(node) ==
    IF node.items = 2
    THEN RlpList(RlpString(<<node.flag * 16 + node.lead>>
                           \o [i \in 1..(Len(node.tail) \div 2) |->
                                 node.tail[2 * i - 1] * 16 + node.tail[2 * i]])
                 \o RlpString(<<1>>))
    ELSE RlpList(Fill(node.items, 128))

SlotKeys == {Keccak(<<1>>), Keccak(<<2>>)}

\* proofs for a key: branches branch nodes, an extension of ext nibbles when
\* ext > 0, a leaf with the rest of the key shortened or lengthened by delta
\* nibbles, one nibble of it possibly altered, and possibly a node after it
SlotProof(key, branches, ext, delta, altered, after) ==
    LET kn(i) == IF i <= 2 * HashBytes THEN Nibbles(key)[i] ELSE 0
        rest == 2 * HashBytes - branches - ext + delta
        leaf == [i \in 1..rest |->
                    IF i = altered THEN (kn(branches + ext + i) + 1) % 16
                    ELSE kn(branches + ext + i)]
    IN  [i \in 1..branches |-> BranchNode]
        \o (IF ext > 0
            THEN <<ShortNode(0, [i \in 1..ext |-> kn(branches + i)])>> ELSE <<>>)
        \o <<ShortNode(2, leaf)>>
        \o (IF after THEN <<BranchNode>> ELSE <<>>)

InitAssignedSlot ==
    /\ circuit = "is_assigned_slot"
    /\ pc = "call"
    /\ \E key \in SlotKeys, branches \in 0..MaxDepth, ext \in 0..2, delta \in -2..1,
          altered \in {0, 1, 2 * HashBytes - MaxDepth - 4}, after \in BOOLEAN :
          gb_args = [key |-> key,
                     nodes |-> SlotProof(key, branches, ext, delta, altered, after),
                     proof |-> [i \in 1..Len(SlotProof(key, branches, ext, delta,
                                                       altered, after)) |->
                                  NodeRlp(SlotProof(key, branches, ext, delta,
                                                    altered, after)[i])]]
    /\ gb_files = None
    /\ gb_result = None
    /\ NoCircuit

\* let slot_is_empty = !is_assigned_slot(&key, &proof) (lines 218, 236)
IsAssignedSlotCall ==
    /\ circuit = "is_assigned_slot"
    /\ pc = "call"
    /\ \E assigned \in {is_assigned_slot(gb_args.key, gb_args.proof)} :
          IF assigned.panic
          THEN /\ pc' = "panic"
               /\ gb_result' = gb_result
          ELSE /\ pc' = "returned"
               /\ gb_result' = [assigned |-> assigned.value,
                                slot_is_empty |-> ~assigned.value]
    /\ NoCircuitUnchanged

\* transactions the caller may hand to get_transaction_input, by their encoding
ProviderTxs ==
    {TxOf("legacy", 37, <<>>, 1, 1), TxOf("typed", 1, <<>>, MaxValue, 2)}

\* Transaction::decode(&Rlp::new(&transaction_rlp)): the transactions whose
\* encoding the bytes are; none when the bytes are no transaction
DecodeTransaction(transaction_rlp) ==
    {t \in ProviderTxs : SignedRlp(t) = transaction_rlp}

\* transaction_index_bytes.unwrap_or(get_buffer_rlp(transaction_index.unwrap())),
\* the argument of unwrap_or being evaluated before the call
TransactionKeyBug(transaction_index, transaction_index_bytes) ==
    [panic |-> transaction_index = <<>>,
     key |-> IF transaction_index = <<>> THEN <<>> ELSE GetBufferRlp(transaction_index[1])]

TransactionKey(transaction_index, transaction_index_bytes) ==
    [panic |-> transaction_index = <<>>,
     key |-> IF transaction_index = <<>> THEN <<>>
             ELSE IF transaction_index_bytes # <<>> THEN transaction_index_bytes[1]
             ELSE GetBufferRlp(transaction_index[1])]

\* the indices and key bytes a caller may supply
TxIndexArgs == {<<>>} \cup {<<i>> : i \in 0..2}
TxIndexBytesArgs == {<<>>} \cup {<<GetBufferRlp(i)>> : i \in 0..2}

InitTransactionInput ==
    /\ circuit = "get_transaction_input"
    /\ pc = "call"
    /\ \E block_number \in 1..(Len(ProviderBlocks) + 1),
          transaction_index \in TxIndexArgs,
          transaction_index_bytes \in TxIndexBytesArgs,
          transaction_rlp \in {SignedRlp(t) : t \in ProviderTxs} \cup {<<1, 2, 3>>} :
          gb_args = [block_number |-> block_number,
                     transaction_index |-> transaction_index,
                     transaction_index_bytes |-> transaction_index_bytes,
                     transaction_rlp |-> transaction_rlp,
                     merkle_proof |-> <<LeafNode(GetBufferRlp(TxKeyIndex), transaction_rlp)>>,
                     transaction_pf_max_depth |-> MaxDepth]
    /\ gb_files = None
    /\ gb_result = None
    /\ NoCircuit

\* the value get_transaction_input returns
EthBlockTransactionInput(args, block, transaction_key, transaction) ==
    [block |-> block,
     block_number |-> args.block_number,
     block_hash |-> Keccak(GetBlockRlp(block)),
     block_header |-> GetBlockRlp(block),
     transaction |->
        [transaction_index |-> args.transaction_index[1],
         transaction_proofs |->
            [path |-> transaction_key,
             value |-> args.transaction_rlp,
             root_hash |-> block.transactions_root,
             proof |-> args.merkle_proof,
             slot_is_empty |-> FALSE,
             value_max_byte_len |-> TX_MAX_LEN,
             max_depth |-> args.transaction_pf_max_depth,
             key_byte_len |-> <<Len(transaction_key)>>],
         transaction_ecdsa_verify |-> RecoverTxInfo(transaction)]]

\* get_transaction_input: every unwrap that fails aborts the call
GetTransactionInputCall ==
    /\ circuit = "get_transaction_input"
    /\ pc = "call"
    /\ \E key \in {TransactionKey(gb_args.transaction_index, gb_args.transaction_index_bytes)},
          decoded \in {DecodeTransaction(gb_args.transaction_rlp)} :
          IF \/ GetBlock(gb_args.block_number) = None
             \/ key.panic
             \/ decoded = {}
          THEN /\ pc' = "panic"
               /\ gb_result' = gb_result
          ELSE /\ pc' = "returned"
               /\ gb_result' = EthBlockTransactionInput(gb_args, GetBlock(gb_args.block_number),
                                                        key.key, CHOOSE t \in decoded : TRUE)
    /\ NoCircuitUnchanged

(***************************************************************************)
(* get_zksync_transaction_and_storage_input                                *)
(***************************************************************************)
\* a transaction as the provider reports it; to is absent for a creation
ZkTx(signer, to, value, input) ==
    [from |-> AddressOf(signer), signer |-> signer, to |-> to, value |-> value,
     input |-> input]

\* transaction.rlp(): the signed encoding
ZkTxRlp(t) ==
    SignedRlp([TxOf("legacy", 37, t.input, t.value, t.signer)
                  EXCEPT !.to = IF t.to = <<>> THEN <<>> ELSE t.to[1]])

\* transfer(address,uint256) call data for a recipient
TransferTo(recipient) ==
    FUNCTION_SELECTOR_ERC20_TRANSFER
        \o LeftPad(recipient, ERC20_TO_ADDRESS_BYTES_LEN)
        \o LeftPad(MinBytes(Erc20Amount),
                   CALLDATA_BYTES_LEN - FUNCTION_SELECTOR_BYTES_LEN - ERC20_TO_ADDRESS_BYTES_LEN)

\* is_erc20_transaction: call data of the transfer length with the transfer selector
is_erc20_transaction(input) ==
    /\ Len(input) = CALLDATA_BYTES_LEN
    /\ SubSeq(input, 1, FUNCTION_SELECTOR_BYTES_LEN) = FUNCTION_SELECTOR_ERC20_TRANSFER

\* decode_input(..).get(0).into_address(): the recipient of the transfer
decode_input(input) ==
    SubSeq(input, FUNCTION_SELECTOR_BYTES_LEN + ERC20_TO_ADDRESS_BYTES_LEN - AddressBytes + 1,
           FUNCTION_SELECTOR_BYTES_LEN + ERC20_TO_ADDRESS_BYTES_LEN)

\* get_zksync_era_eth_address
ZkSyncEraEthAddress == AddressOf(32778)
ZkToken == AddressOf(43981)

\* get_zksync_era_token_layout_by_address: the mapping slot of a listed token
ZkSyncEraTokenLayout(token_address) ==
    IF token_address = ZkSyncEraEthAddress THEN <<Fill(HashBytes, 0)>>
    ELSE IF token_address = ZkToken THEN <<LeftPad(<<51>>, HashBytes)>>
    ELSE <<>>

\* calculate_storage_mapping_key: keccak256(H256::from(address) ++ mapping_layout)
calculate_storage_mapping_key(mapping_layout, address) ==
    Keccak(LeftPad(address, HashBytes) \o mapping_layout)

\* provider.get_storage_at(address, location, block)
GetStorageAt(address, location, block_number) ==
    LeftPad(<<address[AddressBytes], location[HashBytes], block_number>>, HashBytes)

\* the transactions the provider knows
ZkTxPool ==
    {ZkTx(1, <<AddressOf(2)>>, 1, <<>>),
     ZkTx(2, <<AddressOf(1)>>, MaxValue, <<>>),
     ZkTx(1, <<ZkToken>>, 0, TransferTo(AddressOf(2))),
     ZkTx(3, <<ZkToken>>, 0, TransferTo(AddressOf(1))),
     ZkTx(1, <<AddressOf(2)>>, 0, <<>>),
     ZkTx(3, <<Zeros(AddressBytes)>>, 1, <<>>),
     ZkTx(1, <<>>, 1, <<>>)}

\* the largest number of transactions of a block
MaxBlockTxs == 3

\* blocks: sequences of distinct transactions
ZkBlocks ==
    {b \in SeqsUpTo(ZkTxPool, MaxBlockTxs) :
        Len(b) > 0 /\ \A i, j \in 1..Len(b) : i # j => b[i] # b[j]}

\* valid_tx_from and valid_tx_to (lines 391-404)
ValidTxParties(valid_tx) ==
    IF valid_tx.value # 0
    THEN [panic |-> valid_tx.to = <<>>,
          from |-> valid_tx.from,
          to |-> IF valid_tx.to = <<>> THEN <<>> ELSE valid_tx.to[1]]
    ELSE IF is_erc20_transaction(valid_tx.input)
    THEN [panic |-> FALSE, from |-> valid_tx.from, to |-> decode_input(valid_tx.input)]
    ELSE [panic |-> FALSE, from |-> Zeros(AddressBytes), to |-> Zeros(AddressBytes)]

\* tokens.push(t) unless tokens.contains(t)
PushToken(tokens, t) ==
    IF \E k \in 1..Len(tokens) : tokens[k] = t THEN tokens ELSE Append(tokens, t)

\* the loop over block_with_txs.transactions (lines 411-453), from transaction i
RECURSIVE ZkCollect(_, _, _, _, _)
ZkCollect(transactions, i, valid_tx_from, valid_tx_to, acc) ==
    IF i > Len(transactions) THEN acc
    ELSE LET transaction == transactions[i]
             recipient ==
                 IF transaction.value # 0 THEN transaction.to[1]
                 ELSE decode_input(transaction.input)
             token ==
                 IF transaction.value # 0 THEN ZkSyncEraEthAddress ELSE transaction.to[1]
             counted ==
                 transaction.value # 0 \/ is_erc20_transaction(transaction.input)
             in_from ==
                 counted /\ (transaction.from = valid_tx_from \/ recipient = valid_tx_from)
             in_to ==
                 counted /\ (transaction.from = valid_tx_to \/ recipient = valid_tx_to)
         IN  IF transaction.to = <<>> THEN [acc EXCEPT !.panic = TRUE]
             ELSE ZkCollect(transactions, i + 1, valid_tx_from, valid_tx_to,
                     [panic |-> FALSE,
                      from_txs |-> IF in_from THEN Append(acc.from_txs, ZkTxRlp(transaction))
                                   ELSE acc.from_txs,
                      to_txs |-> IF in_to THEN Append(acc.to_txs, ZkTxRlp(transaction))
                                 ELSE acc.to_txs,
                      from_tokens |-> IF in_from THEN PushToken(acc.from_tokens, token)
                                      ELSE acc.from_tokens,
                      to_tokens |-> IF in_to THEN PushToken(acc.to_tokens, token)
                                    ELSE acc.to_tokens])

\* the last index in place of the first matching one
PositionBug(txs, rlp) ==
    IF Len(txs) > 0 THEN <<Len(txs) - 1>> ELSE <<>>

\* iter().position(|tx_rlp| tx_rlp == rlp): the first index, from 0, or none
Position(txs, rlp) ==
    IF \E k \in 1..Len(txs) : txs[k] = rlp
    THEN <<(CHOOSE k \in 1..Len(txs) :
               txs[k] = rlp /\ \A j \in 1..(k - 1) : txs[j] # rlp) - 1>>
    ELSE <<>>

\* ZkSyncTransactionsInput of one party (lines 462-527)
ZkSyncTransactionsInput(validate_index, txs, tokens, party, block_number) ==
    LET nonce_holder == AddressOf(32771)
        nonce_location == calculate_storage_mapping_key(Fill(HashBytes, 0), party)
    IN  [validate_index |-> validate_index,
         txs |-> txs,
         nonce_slots |-> <<GetStorageAt(nonce_holder, nonce_location, block_number - 1),
                           GetStorageAt(nonce_holder, nonce_location, block_number)>>,
         amount_slots |->
            [k \in 1..Len(tokens) |->
                LET token_location ==
                        calculate_storage_mapping_key(ZkSyncEraTokenLayout(tokens[k])[1], party)
                IN  <<tokens[k],
                      GetStorageAt(tokens[k], token_location, block_number - 1),
                      GetStorageAt(tokens[k], token_location, block_number)>>]]

\* get_zksync_transaction_and_storage_input, given what the provider returns
\* for the hash: nothing, or the transaction and its block
ZkSyncBlockTransactionInput(found, block_with_txs, block_number) ==
    IF found = <<>> THEN [panic |-> TRUE]
    ELSE LET valid_tx == found[1]
             parties == ValidTxParties(valid_tx)
             Built(lists, rlp) ==
                 LET from_validate_index == Position(lists.from_txs, rlp)
                     to_validate_index == Position(lists.to_txs, rlp)
                 IN  IF \/ lists.panic
                        \/ from_validate_index = <<>>
                        \/ to_validate_index = <<>>
                        \/ \E k \in 1..Len(lists.from_tokens) :
                              ZkSyncEraTokenLayout(lists.from_tokens[k]) = <<>>
                        \/ \E k \in 1..Len(lists.to_tokens) :
                              ZkSyncEraTokenLayout(lists.to_tokens[k]) = <<>>
                     THEN [panic |-> TRUE]
                     ELSE [panic |-> FALSE,
                           from_input |->
                              ZkSyncTransactionsInput(from_validate_index[1], lists.from_txs,
                                                      lists.from_tokens, parties.from,
                                                      block_number),
                           to_input |->
                              ZkSyncTransactionsInput(to_validate_index[1], lists.to_txs,
                                                      lists.to_tokens, parties.to,
                                                      block_number)]
         IN  IF parties.panic THEN [panic |-> TRUE]
             ELSE Built(ZkCollect(block_with_txs, 1, parties.from, parties.to,
                                  [panic |-> FALSE, from_txs |-> <<>>, to_txs |-> <<>>,
                                   from_tokens |-> <<>>, to_tokens |-> <<>>]),
                        ZkTxRlp(valid_tx))

\* the provider knows the hash as a transaction of a block, or does not know it
InitZkSync ==
    /\ circuit = "get_zksync_transaction_and_storage_input"
    /\ pc = "call"
    /\ \E block_with_txs \in ZkBlocks :
          \E found \in {<<>>} \cup {<<block_with_txs[k]>> : k \in 1..Len(block_with_txs)} :
             gb_args = [found |-> found, block_with_txs |-> block_with_txs,
                        block_number |-> Len(block_with_txs)]
    /\ gb_files = None
    /\ gb_result = None
    /\ NoCircuit

GetZkSyncInputCall ==
    /\ circuit = "get_zksync_transaction_and_storage_input"
    /\ pc = "call"
    /\ \E input \in {ZkSyncBlockTransactionInput(gb_args.found, gb_args.block_with_txs,
                                                 gb_args.block_number)} :
          IF input.panic
          THEN /\ pc' = "panic"
               /\ gb_result' = gb_result
          ELSE /\ pc' = "returned"
               /\ gb_result' = input
    /\ NoCircuitUnchanged

(***************************************************************************)
(* get_batch_block_merkle_root                                             *)
(***************************************************************************)
\* the number of values of the block-number type (u32 in the code)
U32Modulus == 2^3

\* block_verify_index - start_block_num without underflow check: the smaller
\* of the two is taken as the index origin
LeafIndexOutcomesBug(block_verify_index, start_block_num) ==
    {[panic |-> FALSE,
      index |-> IF block_verify_index >= start_block_num
                THEN block_verify_index - start_block_num ELSE 0]}

\* block_verify_index - start_block_num (line 74): on underflow the build
\* with overflow checks aborts and the build without them wraps around
LeafIndexOutcomes(block_verify_index, start_block_num) ==
    IF block_verify_index >= start_block_num
    THEN {[panic |-> FALSE, index |-> block_verify_index - start_block_num]}
    ELSE {[panic |-> TRUE, index |-> 0],
          [panic |-> FALSE,
           index |-> (block_verify_index - start_block_num + U32Modulus) % U32Modulus]}

InitBatchRoot ==
    /\ circuit = "get_batch_block_merkle_root"
    /\ pc = "call"
    /\ \E start_block_num \in 0..(U32Modulus - 1), end_block_num \in 0..(U32Modulus - 1),
          block_verify_index \in 0..(U32Modulus - 1) :
          gb_args = [start_block_num |-> start_block_num,
                     end_block_num |-> end_block_num,
                     block_verify_index |-> block_verify_index]
    /\ gb_files = None
    /\ gb_result = None
    /\ NoCircuit

\* lines 72-74: the assertion, the empty leaf vector and the leaf index
BatchRootStart ==
    /\ circuit = "get_batch_block_merkle_root"
    /\ pc = "call"
    /\ IF gb_args.start_block_num > gb_args.end_block_num
       THEN /\ pc' = "panic"
            /\ gb_result' = gb_result
       ELSE \E outcome \in LeafIndexOutcomes(gb_args.block_verify_index,
                                             gb_args.start_block_num) :
               IF outcome.panic
               THEN /\ pc' = "panic"
                    /\ gb_result' = gb_result
               ELSE /\ pc' = "loop"
                    /\ gb_result' = [leaves |-> <<>>,
                                     merkle_verify_leaf_index |-> outcome.index,
                                     block_num |-> gb_args.start_block_num,
                                     verified_leaf |-> <<>>]
    /\ NoCircuitUnchanged

\* one iteration of the loop over start_block_num..=end_block_num (lines 75-79)
BatchRootFetch ==
    /\ circuit = "get_batch_block_merkle_root"
    /\ pc = "loop"
    /\ IF GetBlock(gb_result.block_num) = None
       THEN /\ pc' = "panic"
            /\ gb_result' = gb_result
       ELSE /\ pc' = IF gb_result.block_num = gb_args.end_block_num THEN "tree" ELSE "loop"
            /\ gb_result' =
                  [gb_result EXCEPT
                      !.leaves = Append(@, Keccak(GetBlockRlp(GetBlock(gb_result.block_num)))),
                      !.block_num = IF @ = gb_args.end_block_num THEN @ ELSE @ + 1]
    /\ NoCircuitUnchanged

\* h256_non_standard_tree_root_and_proof(&leaves, merkle_verify_leaf_index)
\* (line 79): for an index outside the leaves it aborts or returns
BatchRootTree ==
    /\ circuit = "get_batch_block_merkle_root"
    /\ pc = "tree"
    /\ \/ pc' = "verify"
       \/ /\ gb_result.merkle_verify_leaf_index >= Len(gb_result.leaves)
          /\ pc' = "panic"
    /\ gb_result' = gb_result
    /\ NoCircuitUnchanged

\* h256_tree_verify(&proof_root, &leaves[merkle_verify_leaf_index as usize], ..)
\* (line 81): the index is checked against the length of leaves
BatchRootVerify ==
    /\ circuit = "get_batch_block_merkle_root"
    /\ pc = "verify"
    /\ IF gb_result.merkle_verify_leaf_index >= Len(gb_result.leaves)
       THEN /\ pc' = "panic"
            /\ gb_result' = gb_result
       ELSE /\ pc' = "returned"
            /\ gb_result' =
                  [gb_result EXCEPT
                      !.verified_leaf = <<gb_result.leaves[gb_result.merkle_verify_leaf_index + 1]>>]
    /\ NoCircuitUnchanged

InitProviders ==
    \/ InitBlockRlp
    \/ InitAssignedSlot
    \/ InitTransactionInput
    \/ InitZkSync
    \/ InitBatchRoot

NextProviders ==
    \/ GetBlockRlpCall
    \/ IsAssignedSlotCall
    \/ GetTransactionInputCall
    \/ GetZkSyncInputCall
    \/ BatchRootStart
    \/ BatchRootFetch
    \/ BatchRootTree
    \/ BatchRootVerify

SpecProviders == InitProviders /\ [][NextProviders]_vars

(***************************************************************************)
(* Properties of the track-block circuit                                   *)
(***************************************************************************)
LinksOf(i) ==
    {k \in 1..Len(constraints) : constraints[k].name = "link" /\ constraints[k].idx = i}

LimbOf(bytes, limb) == SubSeq(bytes, LimbBytes * (limb - 1) + 1, LimbBytes * limb)

\* the header (1-based) fits the static maximum
WithinMax(i) == Len(tb_input[i].block_header) <= BlockHeaderRlpMaxBytes

\* the block hash computed for a header is that of its encoding, when the
\* header fits the static maximum
ComputedHashIsHeaderHash(i) ==
    WithinMax(i) => block_witness[i].block_hash = Keccak(tb_input[i].block_header)

\* C1: for every processed header i >= 1 exactly two equality constraints are
\* emitted, one per 128-bit limb, between the parent-hash field decoded from
\* header i and the block hash computed for header i-1 (and for no earlier
\* header); header 0 has no link constraint.
C1_ParentLink ==
    /\ LinksOf(0) = {}
    /\ \A i \in 1..(Len(block_witness) - 1) :
        /\ Cardinality(LinksOf(i)) = 2
        /\ ComputedHashIsHeaderHash(i)
        /\ WithinMax(i + 1) =>
                get_parent_hash(block_witness[i + 1]).field_cells
                    = tb_input[i + 1].block.parent_hash
        /\ \A limb \in 1..2 : \E k \in LinksOf(i) :
            /\ constraints[k].limb = limb
            /\ constraints[k].lhs
                 = LimbOf(get_parent_hash(block_witness[i + 1]).field_cells, limb)
            /\ constraints[k].rhs = LimbOf(block_witness[i].block_hash, limb)

C1_Witness ==
    /\ pc = "done"
    /\ Len(block_witness) >= 3
    /\ Satisfiable

\* C2: for a non-empty header sequence the public instance is exactly the
\* high limb and then the low limb of the block hash computed for the last
\* header.
C2_TrackInstance ==
    pc \in {"phase1", "done"} =>
        /\ ComputedHashIsHeaderHash(Len(tb_input))
        /\ assigned_instances =
            << LimbOf(block_witness[Len(tb_input)].block_hash, 1),
               LimbOf(block_witness[Len(tb_input)].block_hash, 2) >>

C2_Witness ==
    /\ pc = "done"
    /\ Len(tb_input) >= 2
    /\ tb_input[1] # tb_input[Len(tb_input)]
    /\ Len(assigned_instances) = 2

(***************************************************************************)
(* Properties of the transaction circuit                                   *)
(***************************************************************************)
Phase0Returned == pc \in {"create", "phase1", "done"}

TheEcdsaInput == tx_input.transaction.transaction_ecdsa_verify

TheValueBytes == tx_input.transaction.transaction_proofs.value_bytes

\* C3: the public instance has exactly 14 cells: block hash (2 limbs),
\* transaction hash (2 limbs), chain id, index, from, to, token, amount,
\* nonce, timestamp, destination address, destination token.
C3_TxInstance ==
    pc \in {"phase1", "done"} =>
        /\ Len(assigned_instances) = 14
        /\ assigned_instances[1] = digest.block_hash[1]
        /\ assigned_instances[2] = digest.block_hash[2]
        /\ assigned_instances[3] = digest.transaction_field.hash[1]
        /\ assigned_instances[4] = digest.transaction_field.hash[2]
        /\ assigned_instances[5] = digest.transaction_field.chain_id
        /\ assigned_instances[6] = tx_input.transaction.transaction_index
        /\ assigned_instances[7] = digest.transaction_field.from
        /\ assigned_instances[8] = digest.transaction_field.to
        /\ assigned_instances[9] = digest.transaction_field.token
        /\ assigned_instances[10] = digest.transaction_field.amount
        /\ assigned_instances[11] = digest.transaction_field.nonce
        /\ assigned_instances[12] = digest.transaction_field.time_stamp
        /\ assigned_instances[13] = digest.transaction_field.dest_transfer_address
        /\ assigned_instances[14] = digest.transaction_field.dest_transfer_token

C3_Witness ==
    /\ pc = "done"
    /\ Satisfiable
    /\ Len(assigned_instances) = 14
    /\ assigned_instances[7] # assigned_instances[8]
    /\ assigned_instances[10] # assigned_instances[11]

\* C4: whenever a run is satisfiable, the signature and message hash given
\* to the ECDSA verification are those of the transaction whose bytes are
\* decoded and hashed.
C4_SignerBound ==
    (pc = "done" /\ Satisfiable) =>
        /\ TheEcdsaInput.message_hash = SigningHash(tx_fetched.tx)
        /\ TheEcdsaInput.signature = Sign(PubKey(tx_fetched.tx.signer), SigningHash(tx_fetched.tx))

\* C5: the ECDSA verification result is constrained to 1, so a run with an
\* invalid signature is unsatisfiable, and `from` is the value of bytes
\* 12..32 of the hash of the supplied public key.
C5_EcdsaAndFrom ==
    Phase0Returned =>
        /\ \E k \in 1..Len(constraints) :
            /\ constraints[k].name = "ecdsa"
            /\ constraints[k].rhs = 1
            /\ constraints[k].lhs =
                 (IF TheEcdsaInput.signature
                        = Sign(TheEcdsaInput.public_key, TheEcdsaInput.message_hash)
                  THEN 1 ELSE 0)
        /\ Satisfiable =>
             TheEcdsaInput.signature = Sign(TheEcdsaInput.public_key, TheEcdsaInput.message_hash)
        /\ digest.transaction_field.from
             = EvalField(SubSeq(Keccak(TheEcdsaInput.public_key), 13, 32))

C5_Witness ==
    /\ pc = "done"
    /\ TheEcdsaInput.signature # Sign(TheEcdsaInput.public_key, TheEcdsaInput.message_hash)
    /\ ~Satisfiable

\* C6: for a legacy transaction with v >= 35 the chain id is (v - 35) / 2
\* when v - 35 is even and (v - 36) / 2 when it is odd.
C6_LegacyChainId ==
    (Phase0Returned /\ tx_fetched.tx.kind = "legacy" /\ tx_fetched.tx.v >= 35) =>
        digest.transaction_field.chain_id =
            (IF (tx_fetched.tx.v - 35) % 2 = 0
             THEN (tx_fetched.tx.v - 35) \div 2
             ELSE (tx_fetched.tx.v - 36) \div 2)

IsTransferCalldata(data) ==
    /\ Len(data) = CALLDATA_BYTES_LEN
    /\ SubSeq(data, 1, FUNCTION_SELECTOR_BYTES_LEN) = FUNCTION_SELECTOR_ERC20_TRANSFER

\* C7: for call data of the transfer length that starts with the transfer
\* selector the decoding completes with token = the outer `to`, to = the
\* address word and amount = the amount word of the call data.
C7_Erc20Decoded ==
    IsTransferCalldata(tx_fetched.tx.data) =>
        /\ pc # "panic"
        /\ Phase0Returned =>
            /\ digest.transaction_field.token = EvalField(tx_fetched.tx.to)
            /\ digest.transaction_field.to = Erc20Recipient
            /\ digest.transaction_field.amount = Erc20Amount

\* C8: for any other call data the decoding completes with token = 0 and
\* to, amount = the outer transaction's to and value.
C8_NativeDecoded ==
    ~IsTransferCalldata(tx_fetched.tx.data) =>
        /\ pc # "panic"
        /\ Phase0Returned =>
            /\ digest.transaction_field.token = 0
            /\ digest.transaction_field.to = EvalField(tx_fetched.tx.to)
            /\ digest.transaction_field.amount = tx_fetched.tx.value

\* C9: the transaction hash is the hash of the literal encoding from byte 0:
\* the queued length is the decoded list length, plus 1 for a typed
\* transaction, and the bytes after it do not matter.
C9_TxHash ==
    Phase0Returned =>
        /\ digest.transaction_field.hash
             = << LimbOf(Keccak(tx_fetched.enc), 1), LimbOf(Keccak(tx_fetched.enc), 2) >>
        /\ \E k \in 1..Len(var_len_queries) :
            /\ var_len_queries[k].input = TheValueBytes
            /\ var_len_queries[k].len = Len(tx_fetched.enc)
            /\ var_len_queries[k].len =
                 tx_witness.transaction_witness.transaction_witness.rlp_len
                    + (IF tx_fetched.tx.kind = "typed" THEN 1 ELSE 0)

C9_Witness ==
    /\ pc = "done"
    /\ tx_fetched.tx.kind = "typed"
    /\ TheValueBytes[TX_MAX_LEN] # 0
    /\ Satisfiable

\* C10: two runs that differ only in the first byte of the transaction
\* generate the same constraints: same field-length table, same field
\* indices, same hash-length offset.
C10_UniformShape ==
    Phase0Returned =>
        \A b \in {EIP_1559_TX_TYPE, EIP_2718_TX_TYPE} :
            parse_transaction_extra_proof([TheValueBytes EXCEPT ![1] = b], TheEcdsaInput).shape
                = tx_shape

ConstraintsNamed(name) == {k \in 1..Len(constraints) : constraints[k].name = name}

TheDecodedTx == tx_witness.transaction_witness.transaction_witness

\* C11: when the first byte is not below EIP_TX_TYPE_CRITICAL_VALUE exactly
\* one constraint equates it with EIP_2718_TX_TYPE, so a first byte at or
\* above the threshold that is not the marker makes the run unsatisfiable;
\* when the first byte is below the threshold there is no such constraint.
C11_LegacyMarker ==
    Phase0Returned =>
        IF TheValueBytes[1] >= EIP_TX_TYPE_CRITICAL_VALUE
        THEN /\ Cardinality(ConstraintsNamed("legacy_type")) = 1
             /\ \A k \in ConstraintsNamed("legacy_type") :
                    /\ constraints[k].lhs = TheValueBytes[1]
                    /\ constraints[k].rhs = EIP_2718_TX_TYPE
             /\ TheValueBytes[1] # EIP_2718_TX_TYPE => ~Satisfiable
        ELSE ConstraintsNamed("legacy_type") = {}

C11_Witness ==
    /\ pc = "done"
    /\ TheValueBytes[1] >= EIP_TX_TYPE_CRITICAL_VALUE
    /\ TheValueBytes[1] # EIP_2718_TX_TYPE
    /\ \E k \in ConstraintsNamed("legacy_type") : constraints[k].lhs # constraints[k].rhs

\* the decomposition of the transaction succeeded
TxDecoded == \A k \in ConstraintsNamed("tx_rlp") : constraints[k].lhs = constraints[k].rhs

\* C12: a legacy transaction is decomposed whole with a table of 9 fields and
\* nonce, to, value, data, v are read at 0, 3, 4, 5, 6; a typed transaction is
\* decomposed after its first byte with a table of 12 fields and chain id,
\* nonce, to, value, data are read at 0, 1, 5, 6, 7.
C12_FieldTables ==
    Phase0Returned =>
        IF tx_fetched.tx.kind = "legacy"
        THEN /\ Len(tx_shape.field_lens) = 9
             /\ Len(TheDecodedTx.field_witness) = 9
             /\ tx_shape.rlp_offset = 0
             /\ tx_shape.nonce_idx = 0
             /\ tx_shape.to_idx = 3
             /\ tx_shape.amount_idx = 4
             /\ tx_shape.calldata_idx = 5
             /\ TxDecoded =>
                 /\ digest.transaction_field.nonce = tx_fetched.tx.nonce
                 /\ digest.transaction_field.to = EvalField(tx_fetched.tx.to)
                 /\ digest.transaction_field.amount = tx_fetched.tx.value
                 /\ SubSeq(TheDecodedTx.field_witness[6].field_cells, 1,
                           TheDecodedTx.field_witness[6].field_len) = tx_fetched.tx.data
                 /\ FieldToUint(TheDecodedTx.field_witness[7]) = tx_fetched.tx.v
                 /\ digest.transaction_field.chain_id
                      = LegacyChainId(tx_fetched.tx.v).chain_id
        ELSE /\ Len(tx_shape.field_lens) = 12
             /\ Len(TheDecodedTx.field_witness) = 12
             /\ tx_shape.rlp_offset = 1
             /\ tx_shape.nonce_idx = 1
             /\ tx_shape.to_idx = 5
             /\ tx_shape.amount_idx = 6
             /\ tx_shape.calldata_idx = 7
             /\ (TxDecoded /\ tx_fetched.tx.type = EIP_1559_TX_TYPE) =>
                 /\ digest.transaction_field.chain_id = tx_fetched.tx.chain_id
                 /\ digest.transaction_field.nonce = tx_fetched.tx.nonce
                 /\ digest.transaction_field.to = EvalField(tx_fetched.tx.to)
                 /\ digest.transaction_field.amount = tx_fetched.tx.value
                 /\ SubSeq(TheDecodedTx.field_witness[8].field_cells, 1,
                           TheDecodedTx.field_witness[8].field_len) = tx_fetched.tx.data

C12_Witness ==
    /\ pc = "done"
    /\ tx_fetched.tx.kind = "typed"
    /\ tx_fetched.tx.type = EIP_1559_TX_TYPE
    /\ TxDecoded
    /\ tx_fetched.tx.value # 0
    /\ digest.transaction_field.amount = tx_fetched.tx.value
    /\ digest.transaction_field.nonce = tx_fetched.tx.nonce

\* C13: the destination address and destination token of the digest, and the
\* last two instance cells, are 0 for every transaction.
C13_DestTransferZero ==
    /\ Phase0Returned =>
        /\ digest.transaction_field.dest_transfer_address = 0
        /\ digest.transaction_field.dest_transfer_token = 0
    /\ pc \in {"phase1", "done"} =>
        /\ assigned_instances[13] = 0
        /\ assigned_instances[14] = 0

C13_Witness ==
    /\ pc = "done"
    /\ digest.transaction_field.to # 0
    /\ digest.transaction_field.amount # 0
    /\ assigned_instances[13] = 0
    /\ assigned_instances[14] = 0

TheProofs == tx_input.transaction.transaction_proofs

\* C14: once the circuit is built, each byte of the proof root is constrained
\* to the byte of the transactions root decoded from the header whose hash is
\* the exposed block hash, and the emptiness flag is constrained to 0: a
\* satisfiable run has the proof root equal to that transactions root and
\* slot_is_empty = 0.
C14_RootAndInclusion ==
    pc \in {"phase1", "done"} =>
        /\ digest.block_hash = BytesBeToU128(tx_witness.block_witness.block_hash)
        /\ Cardinality(ConstraintsNamed("root")) = HashBytes
        /\ \A k \in ConstraintsNamed("root") :
              /\ constraints[k].lhs = TheProofs.root_hash_bytes[constraints[k].idx]
              /\ constraints[k].rhs =
                    get_transactions_root(tx_witness.block_witness).field_cells[constraints[k].idx]
        /\ \E k \in ConstraintsNamed("transaction_is_empty") :
              /\ constraints[k].lhs = TheProofs.slot_is_empty
              /\ constraints[k].rhs = 0
        /\ Satisfiable =>
              /\ TheProofs.root_hash_bytes
                    = get_transactions_root(tx_witness.block_witness).field_cells
              /\ TheProofs.slot_is_empty = 0

C14_Witness ==
    /\ pc = "done"
    /\ Satisfiable
    /\ TheProofs.slot_is_empty = 0
    /\ TheProofs.root_hash_bytes = get_transactions_root(tx_witness.block_witness).field_cells

(***************************************************************************)
(* Properties of the two phases                                            *)
(***************************************************************************)
\* C15: no output of a hash query is read in the first phase.
C15_DeferredDigest ==
    \A k \in 1..Len(digest_reads) : digest_reads[k].phase # FIRST_PHASE

\* C16: hash queries are queued in phase 0 only; phase 1 runs after phase 0
\* has returned its witness and leaves the queues alone; the traces of
\* phase 1 are those of the witnesses of phase 0, one each, in input order.
C16_TwoPhases ==
    /\ [](/\ pc \in {"phase1", "done"} =>
                /\ digest # None
                /\ circuit = "track_block" => Len(block_witness) = Len(tb_input)
                /\ circuit = "transaction" => tx_witness # None
          /\ pc \in {"phase0", "create"} => (block_trace = <<>> /\ tx_trace = None)
          /\ Len(block_trace) <= Len(block_witness)
          /\ \A k \in 1..Len(block_trace) :
                block_trace[k] = DecomposeBlockHeaderPhase1(block_witness[k])
          /\ (pc = "done" /\ circuit = "track_block") =>
                Len(block_trace) = Len(block_witness)
          /\ (pc = "done" /\ circuit = "transaction") =>
                tx_trace.block_trace = DecomposeBlockHeaderPhase1(tx_witness.block_witness))
    /\ [][/\ pc # "phase0" =>
                /\ var_len_queries' = var_len_queries
                /\ fixed_len_queries' = fixed_len_queries
          /\ pc \in {"phase1", "done"} =>
                /\ block_witness' = block_witness
                /\ tx_witness' = tx_witness
          /\ Len(block_trace') >= Len(block_trace)
          /\ Len(block_trace') <= Len(block_trace) + 1
          /\ SubSeq(block_trace', 1, Len(block_trace)) = block_trace]_vars

C16_Witness ==
    /\ pc = "done"
    /\ circuit = "track_block"
    /\ Len(block_trace) = 3
    /\ block_trace[1] # block_trace[3]
    /\ Len(var_len_queries) = 3

\* C17: a header longer than block_header_rlp_max_bytes is reported, or every
\* byte of it is kept in what is decomposed and hashed.
C17_NoSilentTruncation ==
    \A i \in 1..Len(block_witness) :
        ~WithinMax(i) =>
            \/ pc = "panic"
            \/ /\ Len(block_witness[i].hash_query.input) >= Len(tb_input[i].block_header)
               /\ SubSeq(block_witness[i].hash_query.input, 1,
                         Len(tb_input[i].block_header)) = tb_input[i].block_header

(***************************************************************************)
(* Properties of get_blocks_input                                          *)
(***************************************************************************)
NumBlocksOk == gb_args.num_blocks > 0 /\ gb_args.num_blocks <= 2^gb_args.max_depth

\* C18: a call with 0 < num_blocks <= 2^max_depth that returns gives exactly
\* 2^max_depth encodings: those of blocks start, start + 1, ... in the first
\* num_blocks places and copies of the first one after them; a call with
\* num_blocks = 0 or num_blocks > 2^max_depth aborts; a call only aborts for
\* that reason or because the provider lacks a block of the range.
C18_BlocksInput ==
    /\ pc = "returned" =>
        /\ NumBlocksOk
        /\ Len(gb_result) = 2^gb_args.max_depth
        /\ \A i \in 0..(Len(gb_result) - 1) :
              gb_result[i + 1] =
                 IF i < gb_args.num_blocks
                 THEN ProviderBlocks[gb_args.start_block_number + i].block_header
                 ELSE gb_result[1]
    /\ (pc # "call" /\ ~NumBlocksOk) => pc = "panic"
    /\ (pc = "panic" /\ NumBlocksOk) =>
          gb_args.start_block_number + gb_args.num_blocks - 1 > Len(ProviderBlocks)

C18_Witness ==
    /\ pc = "returned"
    /\ gb_args.num_blocks = 3
    /\ gb_args.max_depth = 2
    /\ Len(gb_result) = 4
    /\ gb_result[4] = gb_result[1]
    /\ gb_result[3] # gb_result[1]

(***************************************************************************)
(* Properties of the header-chain and single-header circuits               *)
(***************************************************************************)
\* the blocks whose headers fill the first num_blocks slots
RealBlocks ==
    [k \in 1..hc_input.num_blocks |->
        IF ~hc_input.linked /\ k = hc_input.num_blocks
        THEN GoerliBlocks[hc_input.start - 1]
        ELSE GoerliBlocks[hc_input.start + k - 1]]

\* the Merkle Mountain Range of a list of leaves, built from the front:
\* a mountain of 2^i leaves when that many are left, otherwise zero
RECURSIVE MmrOf(_, _)
MmrOf(leaves, i) ==
    IF i < 0 THEN <<>>
    ELSE IF Len(leaves) >= 2^i
    THEN <<MerkleRoot(leaves, 1, 2^i)>> \o MmrOf(SubSeq(leaves, 2^i + 1, Len(leaves)), i - 1)
    ELSE <<Zeros(HashBytes)>> \o MmrOf(leaves, i - 1)

ExpectedChainInstance(blocks, max_depth) ==
    <<blocks[1].block.number, blocks[Len(blocks)].block.number>>
    \o Concat([k \in 1..(max_depth + 1) |->
                 BytesBeToU128(MmrOf([j \in 1..Len(blocks) |-> blocks[j].block_hash],
                                     max_depth)[k])])

\* C19: in a header-chain circuit the public instance is the first and last
\* real block number and the Merkle Mountain Range of the num_blocks real
\* block hashes, whatever well-formed headers fill the slots past num_blocks,
\* and a correctly linked chain of real headers is satisfied with any such
\* padding, copies of the first header included.
C19_PaddingSafety ==
    circuit = "header_chain" =>
        /\ pc \in {"phase1", "done"} =>
              assigned_instances = ExpectedChainInstance(RealBlocks, hc_input.max_depth)
        /\ (pc = "done" /\ hc_input.linked) => Satisfiable

C19_Witness ==
    /\ circuit = "header_chain"
    /\ pc = "done"
    /\ hc_input.num_blocks = 7
    /\ hc_input.max_depth = 3
    /\ hc_input.linked
    /\ hc_input.padding = "first"
    /\ hc_input.header_rlp_encodings[8] = hc_input.header_rlp_encodings[1]
    /\ HashCheck(block_witness, 7) = 0
    /\ Satisfiable
    /\ Len(assigned_instances) = 10

\* C20: the single-header circuit has no assigned instance cells and, for a
\* header of any of the three layouts padded with zeros to the maximum
\* length, every constraint holds.
C20_EmptyInstance ==
    circuit = "header_test" =>
        /\ assigned_instances = <<>>
        /\ pc = "done" => Satisfiable

C20_Witness ==
    /\ circuit = "header_test"
    /\ pc = "done"
    /\ hc_input.block.withdrawals_root # <<>>
    /\ Len(GetBlockRlp(hc_input.block)) < BlockHeaderRlpMaxBytes
    /\ Len(hc_input.header_rlp_encodings[1]) = BlockHeaderRlpMaxBytes
    /\ block_witness[1].rlp_witness.field_witness[17].field_len = HashBytes
    /\ block_witness[1].block_hash = Keccak(GetBlockRlp(hc_input.block))
    /\ assigned_instances = <<>>
    /\ Satisfiable

(***************************************************************************)
(* Properties of the provider functions                                    *)
(***************************************************************************)
\* the header items in the fixed order, optional ones last
ExpectedHeaderItems(block) ==
    <<block.parent_hash, block.uncles_hash, block.author, block.state_root,
      block.transactions_root, block.receipts_root, block.logs_bloom,
      MinBytes(block.difficulty), MinBytes(block.number), MinBytes(block.gas_limit),
      MinBytes(block.gas_used), MinBytes(block.timestamp), block.extra_data,
      block.mix_hash, block.nonce>>
    \o (IF block.base_fee_per_gas = <<>> THEN <<>>
        ELSE <<MinBytes(block.base_fee_per_gas[1])>>)
    \o (IF block.withdrawals_root = <<>> THEN <<>> ELSE <<block.withdrawals_root[1]>>)

\* C21: get_block_rlp returns an encoding only when its hash is the block's
\* claimed hash and aborts otherwise; the encoding is a list of 15 items plus
\* one per optional field present, in the fixed header order with the base
\* fee before the withdrawals root.
C21_BlockRlp ==
    circuit = "get_block_rlp" =>
        /\ pc = "returned" =>
              /\ gb_args.hash = <<Keccak(gb_result)>>
              /\ RlpItemAt(gb_result, 1).list
              /\ RlpItemAt(gb_result, 1).hdr + RlpItemAt(gb_result, 1).len = Len(gb_result)
              /\ Len(RlpItems(gb_result)) =
                    15 + Len(gb_args.block.base_fee_per_gas)
                       + Len(gb_args.block.withdrawals_root)
              /\ RlpItems(gb_result) = ExpectedHeaderItems(gb_args.block)
        /\ (pc # "call" /\ gb_args.hash # <<Keccak(GetBlockRlp(gb_args.block))>>) =>
              pc = "panic"

C21_Witness ==
    /\ circuit = "get_block_rlp"
    /\ pc = "returned"
    /\ gb_args.block.base_fee_per_gas # <<>>
    /\ gb_args.block.withdrawals_root # <<>>
    /\ Len(RlpItems(gb_result)) = 17
    /\ RlpItems(gb_result)[16] = MinBytes(gb_args.block.base_fee_per_gas[1])

\* the nibbles the nodes contribute, in order: a 2-item node its compact
\* path (the leading nibble when the prefix nibble is 1 or 3, then two per
\* following byte), any other node the key nibble at its position
RECURSIVE Contributed(_, _, _)
Contributed(nodes, key_nibbles, pos) ==
    IF nodes = <<>> THEN <<>>
    ELSE LET own == IF Head(nodes).items = 2
                    THEN (IF Head(nodes).flag \in {1, 3}
                          THEN <<Head(nodes).lead>> ELSE <<>>) \o Head(nodes).tail
                    ELSE <<IF pos <= Len(key_nibbles) THEN key_nibbles[pos] ELSE 16>>
         IN  own \o Contributed(Tail(nodes), key_nibbles, pos + Len(own))

\* C22: is_assigned_slot returns true exactly when the nodes of the proof
\* contribute exactly 64 nibbles and each equals the key nibble at its
\* position; slot_is_empty is the negation of the returned value.
C22_AssignedSlot ==
    circuit = "is_assigned_slot" =>
        /\ pc # "call" =>
              ((pc = "returned" /\ gb_result.assigned)
                 <=> Contributed(gb_args.nodes, Nibbles(gb_args.key), 1)
                        = Nibbles(gb_args.key))
        /\ pc = "returned" => gb_result.slot_is_empty = ~gb_result.assigned

C22_Witness ==
    /\ circuit = "is_assigned_slot"
    /\ pc = "returned"
    /\ gb_result.assigned
    /\ ~gb_result.slot_is_empty
    /\ Len(gb_args.proof) = 4
    /\ gb_args.nodes[3].flag = 1
    /\ gb_args.nodes[4].flag = 3

(***************************************************************************)
(* Further properties of the transaction circuit                           *)
(***************************************************************************)
TheDecodedV == FieldToUint(TheDecodedTx.field_witness[7])

\* C23: for a legacy transaction whose v is below 35, v - 35 wraps around
\* the field modulus, the quotient of its division by 2 is outside the range
\* the division checks, and so the range constraint of the chain-id
\* derivation fails: no such transaction is accepted.
C23_PreEip155Rejected ==
    (Phase0Returned /\ TxDecoded /\ TheValueBytes[1] >= EIP_TX_TYPE_CRITICAL_VALUE
        /\ TheDecodedV < 35) =>
        /\ FSub(TheDecodedV, 35) = FieldModulus - (35 - TheDecodedV)
        /\ FSub(TheDecodedV, 35) \div 2 >= 2^DivModRangeBits
        /\ \E k \in ConstraintsNamed("div_mod_range") :
              constraints[k].lhs # constraints[k].rhs
        /\ ~Satisfiable

C23_Witness ==
    /\ pc = "done"
    /\ TxDecoded
    /\ TheValueBytes[1] >= EIP_TX_TYPE_CRITICAL_VALUE
    /\ tx_fetched.tx.kind = "legacy"
    /\ TheDecodedV = 27
    /\ ~Satisfiable

\* the index a trie key encodes: the integer of the RLP string
KeyIndex(key) ==
    EvalNat(SubSeq(key, 1 + RlpItemAt(key, 1).hdr,
                   RlpItemAt(key, 1).hdr + RlpItemAt(key, 1).len))

\* C24: whenever every constraint of the transaction circuit holds, the
\* exposed tx_index is the index encoded by the key of the inclusion proof.
C24_IndexIsKey ==
    (circuit = "transaction" /\ pc = "done" /\ Satisfiable) =>
        assigned_instances[6] = KeyIndex(tx_input.transaction.transaction_proofs.key_bytes)

\* C25: the vector returned by EthBlockTransactionCircuit::instance has the
\* length of the public instance cells assigned by create for the same
\* input, and the same elements in the same order.
C25_InstanceMatchesCreate ==
    (circuit = "transaction" /\ pc \in {"phase1", "done"}) =>
        /\ Len(TxInstance(tx_input)) = Len(assigned_instances)
        /\ \A k \in 1..Len(assigned_instances) :
              TxInstance(tx_input)[k] = assigned_instances[k]

\* C26: whenever the first byte is below EIP_TX_TYPE_CRITICAL_VALUE the
\* bytes after it are decomposed with the 12-field table and nonce, to,
\* value, data are read at 1, 5, 6, 7 whatever the type is, and no
\* constraint mentions the type byte; so for an EIP-2930 transaction of 11
\* fields `to` is its value item, `amount` its data item and the call data
\* its access list.
C26_TypeNotChecked ==
    (Phase0Returned /\ TheValueBytes[1] < EIP_TX_TYPE_CRITICAL_VALUE) =>
        /\ Len(tx_shape.field_lens) = 12
        /\ tx_shape.rlp_offset = 1
        /\ tx_shape.nonce_idx = 1
        /\ tx_shape.to_idx = 5
        /\ tx_shape.amount_idx = 6
        /\ tx_shape.calldata_idx = 7
        /\ \A k \in 1..Len(constraints) :
              constraints[k].name \in {"header_rlp", "root", "mpt", "tx_rlp", "ecdsa",
                                       "transaction_is_empty"}
        /\ (TxDecoded /\ tx_fetched.tx.type = EIP_2930_TX_TYPE
              /\ SubSeq(TheValueBytes, 1, Len(tx_fetched.enc)) = tx_fetched.enc) =>
              /\ digest.transaction_field.to = tx_fetched.tx.value
              /\ digest.transaction_field.amount = EvalField(tx_fetched.tx.data)
              /\ SubSeq(TheDecodedTx.field_witness[8].field_cells, 1,
                        TheDecodedTx.field_witness[8].field_len) = EmptyAccessList

C26_Witness ==
    /\ pc = "done"
    /\ TheValueBytes[1] = EIP_2930_TX_TYPE
    /\ TxDecoded
    /\ Satisfiable
    /\ tx_fetched.tx.value = MaxValue
    /\ digest.transaction_field.to = MaxValue
    /\ digest.transaction_field.to # EvalField(tx_fetched.tx.to)

C27_AbortWitness ==
    /\ circuit = "get_transaction_input"
    /\ pc = "panic"
    /\ gb_args.transaction_index = <<>>
    /\ gb_args.transaction_index_bytes # <<>>
    /\ gb_args.block_number \in 1..Len(ProviderBlocks)
    /\ DecodeTransaction(gb_args.transaction_rlp) # {}

\* the party a transaction pays: its to field when it carries value, the
\* decoded recipient when it is an ERC-20 transfer without value
ZkRecipient(t) == IF t.value # 0 THEN t.to[1] ELSE decode_input(t.input)

\* one returned list: the index is inside the list and is the first position
\* holding the encoding of the validated transaction
ValidateIndexOk(input, rlp) ==
    /\ input.validate_index \in 0..(Len(input.txs) - 1)
    /\ input.txs[input.validate_index + 1] = rlp
    /\ \A j \in 1..input.validate_index : input.txs[j] # rlp

\* C28: when get_zksync_transaction_and_storage_input returns, validate_index
\* of from_input and of to_input is below the length of txs and is the first
\* position holding the encoding of the validated transaction; every entry of
\* from_input.txs encodes a transaction of the block whose sender, native
\* recipient or decoded ERC-20 recipient is the validated sender; and the
\* function does not return for a validated transaction with zero value that
\* is no ERC-20 transfer
C28_ZkSyncInput ==
    circuit = "get_zksync_transaction_and_storage_input" =>
       /\ pc = "returned" =>
             /\ ValidateIndexOk(gb_result.from_input, ZkTxRlp(gb_args.found[1]))
             /\ ValidateIndexOk(gb_result.to_input, ZkTxRlp(gb_args.found[1]))
             /\ \A k \in 1..Len(gb_result.from_input.txs) :
                   \E i \in 1..Len(gb_args.block_with_txs) :
                      /\ ZkTxRlp(gb_args.block_with_txs[i]) = gb_result.from_input.txs[k]
                      /\ \/ gb_args.block_with_txs[i].from = gb_args.found[1].from
                         \/ ZkRecipient(gb_args.block_with_txs[i]) = gb_args.found[1].from
       /\ (/\ gb_args.found # <<>>
           /\ gb_args.found[1].value = 0
           /\ ~is_erc20_transaction(gb_args.found[1].input)) => pc # "returned"

\* the function has returned for a block of which one transaction is left
\* out of from_input.txs and the validated one is not the first listed
C28_Witness ==
    /\ circuit = "get_zksync_transaction_and_storage_input"
    /\ pc = "returned"
    /\ gb_result.from_input.validate_index > 0
    /\ Len(gb_result.from_input.txs) < Len(gb_args.block_with_txs)
    /\ gb_result.to_input.validate_index # gb_result.from_input.validate_index

\* the function has aborted on a validated transaction that is in neither list
C28_AbortWitness ==
    /\ circuit = "get_zksync_transaction_and_storage_input"
    /\ pc = "panic"
    /\ gb_args.found # <<>>
    /\ gb_args.found[1].value = 0
    /\ ~is_erc20_transaction(gb_args.found[1].input)
    /\ \A i \in 1..Len(gb_args.block_with_txs) : gb_args.block_with_txs[i].to # <<>>

\* the position the batch call is at: past the loop over the blocks
BatchLeavesCollected == pc \in {"tree", "verify", "returned"}

\* C29: in get_batch_block_merkle_root, once the loop is over, start_block_num
\* <= end_block_num and the leaves are the hashes of the blocks start_block_num
\* to end_block_num in ascending order, end_block_num - start_block_num + 1 of
\* them; when the call returns, the verified leaf index is block_verify_index -
\* start_block_num, lies in 0..(end_block_num - start_block_num), and the leaf
\* read is the hash of block block_verify_index; with block_verify_index below
\* start_block_num or above end_block_num the call never returns and reads no
\* leaf
C29_BatchRoot ==
    circuit = "get_batch_block_merkle_root" =>
       /\ BatchLeavesCollected =>
             /\ gb_args.start_block_num <= gb_args.end_block_num
             /\ Len(gb_result.leaves) = gb_args.end_block_num - gb_args.start_block_num + 1
             /\ \A i \in 1..Len(gb_result.leaves) :
                   gb_result.leaves[i] =
                      Keccak(GetBlockRlp(GetBlock(gb_args.start_block_num + i - 1)))
       /\ pc = "returned" =>
             /\ gb_result.merkle_verify_leaf_index =
                   gb_args.block_verify_index - gb_args.start_block_num
             /\ gb_result.merkle_verify_leaf_index
                   \in 0..(gb_args.end_block_num - gb_args.start_block_num)
             /\ gb_result.verified_leaf =
                   <<Keccak(GetBlockRlp(GetBlock(gb_args.block_verify_index)))>>
       /\ (\/ gb_args.block_verify_index < gb_args.start_block_num
           \/ gb_args.block_verify_index > gb_args.end_block_num) =>
             /\ pc # "returned"
             /\ gb_result # None => gb_result.verified_leaf = <<>>

\* the call has returned after verifying a leaf that is neither the first nor
\* the last of at least three
C29_Witness ==
    /\ circuit = "get_batch_block_merkle_root"
    /\ pc = "returned"
    /\ Len(gb_result.leaves) >= 3
    /\ gb_result.merkle_verify_leaf_index \in 1..(Len(gb_result.leaves) - 2)

\* the call has aborted after the loop, the subtraction having wrapped around
C29_WrapWitness ==
    /\ circuit = "get_batch_block_merkle_root"
    /\ pc = "panic"
    /\ gb_result # None
    /\ gb_args.block_verify_index < gb_args.start_block_num
    /\ Len(gb_result.leaves) = gb_args.end_block_num - gb_args.start_block_num + 1
    /\ gb_result.merkle_verify_leaf_index >= Len(gb_result.leaves)

(***************************************************************************)
(* The track-block circuit on an empty and on a single header              *)
(***************************************************************************)
\* C30: parse_track_block_proof_from_block_phase0 on an empty header list
\* produces no digest and no instance: the conversion of the empty running
\* parent hash to last_block_hash aborts; a digest exists only for a list of
\* at least one header; for a single header the instance is the two limbs of
\* that header's computed hash and no link constraint is emitted
C30_EmptyAborts ==
    circuit = "track_block" =>
       /\ Len(tb_input) = 0 =>
             /\ pc \in {"phase0", "panic"}
             /\ digest = None
             /\ assigned_instances = <<>>
       /\ (pc \in {"create", "phase1", "done"} \/ digest # None) => Len(tb_input) >= 1
       /\ (Len(tb_input) = 1 /\ pc \in {"phase1", "done"}) =>
             /\ assigned_instances = <<LimbOf(block_witness[1].block_hash, 1),
                                       LimbOf(block_witness[1].block_hash, 2)>>
             /\ \A k \in 1..Len(constraints) : constraints[k].name # "link"

\* phase 0 has aborted on the empty header list
C30_Witness ==
    /\ circuit = "track_block"
    /\ pc = "panic"
    /\ Len(tb_input) = 0
    /\ parent_hash = <<>>
    /\ digest = None

\* the circuit is complete for a single header
C30_SingleWitness ==
    /\ circuit = "track_block"
    /\ pc = "done"
    /\ Len(tb_input) = 1
    /\ Len(assigned_instances) = 2

====
